---- MODULE Spec2Model ----
(***************************************************************************)
(* The client-side conferencing engine of roomler2: the message channel    *)
(* (ui/src/stores/ws.ts) and the media session (the useMediasoup           *)
(* composable).  JavaScript runs one macrotask at a time and drains the    *)
(* microtask queue before the next one, so every action below is one       *)
(* macrotask (a call of the API, a socket message, a timer, the completion *)
(* of an engine operation) together with the promise continuations it      *)
(* releases.                                                               *)
(***************************************************************************)
EXTENDS Integers, Sequences, FiniteSets, TLC

\* ---------------------------------------------------------------- bounds
\* The number of calls of the API and of events pushed by the server in a run.
MaxEvents == 5
MaxProduceEvents == 7
\* The number of polls of the audio levels in a run.
MaxPolls == 9
\* The number of changes of remoteStreams while the view polls.
MaxStreamChanges == 2
\* The number of calls of the layout's setters, and changes of the speaker, in a run.
MaxLayoutCalls == 3

\* null for a string, for a handle (handles are numbered from 1) and for a payload;
\* a rejected promise holds REJECTED where a fulfilled one holds its payload.
NULL == "null"
NONE == 0
REJECTED == -1

Users == {"u1", "u2"}
Confs == {"conf1"}
Tokens == {"t1", "t2"}

\* The producer the k-th announcement names, and the user that owns it.
Owner(p) == IF p % 2 = 1 THEN "u1" ELSE "u2"

\* What the k-th announced producer carries: the peers announce their cameras
\* first, and a peer that calls startScreenShare announces one more producer.
Source(p) == IF p <= Cardinality(Users) THEN "camera" ELSE "screen"

T_CAPS == "media:router_capabilities"
T_TRANSPORT == "media:transport_created"
T_CONSUMER == "media:consumer_created"
T_NEW_PRODUCER == "media:new_producer"
T_PEER_LEFT == "media:peer_left"
T_PRODUCER_CLOSED == "media:producer_closed"
T_PRODUCE_RESULT == "media:produce_result"

VARIABLES
  \* useMediasoup
  device, sendTransport, recvTransport, producers, consumers, remoteStreams,
  localStream, isMuted, isVideoOn, isScreenSharing, conferenceId,
  screenProducerId, consumeChain,
  \* the ws store: its sockets, its timer handles and its maps
  sockets, socket, status, pingInterval, reconnectTimeout,
  pendingWaiters, mediaHandlers,
  \* the browser's timers: waitForMessage timeouts, keepalive intervals, reconnects
  timers, intervals, timeouts,
  \* the callers of the ws store other than useMediasoup, and what they were given
  clients, invoked, received, channelCalls,
  \* the number of calls and events the environment has in this run
  budget,
  \* the asynchronous invocations in progress
  joins, calls, procs, ops,
  \* the engine and the network
  closed, sent, inflight,
  \* the producers that are paused and the capture tracks whose enabled is false
  paused, disabled,
  \* counters of what the environment has done
  leaves, announced, pushes, dropped,
  \* useActiveSpeaker, and the view's clock and what its analysers were given
  activeSpeaker, audio,
  \* useConferenceLayout, and the item 'roomler:layout-prefs' of localStorage
  layoutCtrl, localStorage

vars == <<device, sendTransport, recvTransport, producers, consumers, remoteStreams,
          localStream, isMuted, isVideoOn, isScreenSharing, conferenceId,
          screenProducerId, consumeChain, socket, pendingWaiters, mediaHandlers,
          timers, joins, calls, procs, ops, closed, sent, inflight, leaves, announced,
          pushes, dropped, sockets, status, pingInterval, reconnectTimeout, intervals,
          timeouts, clients, invoked, received, channelCalls, budget,
          activeSpeaker, audio, layoutCtrl, localStorage, paused, disabled>>

\* The calls and pushed events so far.
Events == Len(joins) + leaves + announced + pushes + 2 * Len(procs)

\* The whole state as one record, so that a handler is a function from state to state.
Cur ==
  [device |-> device, sendTransport |-> sendTransport, recvTransport |-> recvTransport,
   producers |-> producers, consumers |-> consumers, remoteStreams |-> remoteStreams,
   localStream |-> localStream, isMuted |-> isMuted, isVideoOn |-> isVideoOn,
   isScreenSharing |-> isScreenSharing, conferenceId |-> conferenceId,
   screenProducerId |-> screenProducerId, consumeChain |-> consumeChain,
   socket |-> socket, pendingWaiters |-> pendingWaiters, mediaHandlers |-> mediaHandlers,
   timers |-> timers, joins |-> joins, calls |-> calls, procs |-> procs, ops |-> ops,
   closed |-> closed, sent |-> sent,
   inflight |-> inflight, leaves |-> leaves, announced |-> announced, pushes |-> pushes,
   dropped |-> dropped, sockets |-> sockets, status |-> status,
   pingInterval |-> pingInterval, reconnectTimeout |-> reconnectTimeout,
   intervals |-> intervals, timeouts |-> timeouts, clients |-> clients,
   invoked |-> invoked, received |-> received, channelCalls |-> channelCalls,
   budget |-> budget, activeSpeaker |-> activeSpeaker, audio |-> audio,
   layoutCtrl |-> layoutCtrl, localStorage |-> localStorage,
   paused |-> paused, disabled |-> disabled]

Becomes(s) ==
  /\ device' = s.device /\ sendTransport' = s.sendTransport
  /\ recvTransport' = s.recvTransport /\ producers' = s.producers
  /\ consumers' = s.consumers /\ remoteStreams' = s.remoteStreams
  /\ localStream' = s.localStream /\ isMuted' = s.isMuted /\ isVideoOn' = s.isVideoOn
  /\ isScreenSharing' = s.isScreenSharing /\ conferenceId' = s.conferenceId
  /\ screenProducerId' = s.screenProducerId /\ consumeChain' = s.consumeChain
  /\ socket' = s.socket /\ pendingWaiters' = s.pendingWaiters
  /\ mediaHandlers' = s.mediaHandlers /\ timers' = s.timers /\ joins' = s.joins
  /\ calls' = s.calls /\ procs' = s.procs /\ ops' = s.ops /\ closed' = s.closed /\ sent' = s.sent /\ inflight' = s.inflight
  /\ leaves' = s.leaves /\ announced' = s.announced /\ pushes' = s.pushes
  /\ dropped' = s.dropped
  /\ sockets' = s.sockets /\ status' = s.status /\ pingInterval' = s.pingInterval
  /\ reconnectTimeout' = s.reconnectTimeout /\ intervals' = s.intervals
  /\ timeouts' = s.timeouts /\ clients' = s.clients /\ invoked' = s.invoked
  /\ received' = s.received /\ channelCalls' = s.channelCalls
  /\ budget' = s.budget
  /\ activeSpeaker' = s.activeSpeaker /\ audio' = s.audio
  /\ layoutCtrl' = s.layoutCtrl /\ localStorage' = s.localStorage
  /\ paused' = s.paused /\ disabled' = s.disabled

\* ------------------------------------------------- a JavaScript Map as data
\* A Map is the sequence of its entries <<key, value>> in insertion order.
MapKeys(m) == {m[i][1] : i \in DOMAIN m}
MapHas(m, k) == k \in MapKeys(m)
MapGet(m, k) == m[CHOOSE i \in DOMAIN m : m[i][1] = k][2]
MapDelete(m, k) == SelectSeq(m, LAMBDA e : e[1] # k)
\* Mutant: set() that adds an entry without replacing the one of the key.
MapSetKeepsOld(m, k, v) == Append(m, <<k, v>>)

MapSet(m, k, v) ==
  IF MapHas(m, k) THEN [i \in DOMAIN m |-> IF m[i][1] = k THEN <<k, v>> ELSE m[i]]
  ELSE Append(m, <<k, v>>)

\* ------------------------------------------------------------ the network
\* Every envelope has the same fields; a field a type does not carry is NONE/NULL.
\* id: the consumer id, or the request the capabilities and transports answer.
Msg(type, id, producer_id, user_id) ==
  [type |-> type, id |-> id, producer_id |-> producer_id, user_id |-> user_id]

\* What the server answers to the n-th request (the signaling table): media:join
\* is answered by the router capabilities and by the transports made for that
\* join, media:consume by a consumer of the producer named in the request.
serverReplies(req, n) ==
  CASE req.type = "media:join" ->
         {Msg(T_CAPS, n, NONE, NULL), Msg(T_TRANSPORT, n, NONE, NULL)}
    [] req.type = "media:consume" ->
         {Msg(T_CONSUMER, n, req.producer_id, NULL)}
    [] req.type = "media:produce" ->
         {Msg(T_PRODUCE_RESULT, n, NONE, NULL)}
    [] OTHER -> {}

\* ------------------------------------------------------------ ws.ts
Req(type, conference_id, producer_id) ==
  [type |-> type, conference_id |-> conference_id, producer_id |-> producer_id,
   kind |-> NULL]
ProduceReq(conference_id, kind) ==
  [type |-> "media:produce", conference_id |-> conference_id, producer_id |-> NONE,
   kind |-> kind]

\* send: a no-op unless the socket is open.
send(s, req) ==
  IF s.socket # NONE /\ s.sockets[s.socket].readyState = "OPEN"
  THEN [s EXCEPT !.sent = Append(@, req),
                 !.inflight = @ \cup serverReplies(req, Len(s.sent) + 1)]
  ELSE s

\* Mutant: a waitForMessage that leaves a waiter already registered in place.
waitForMessageKeepsFirst(s, type, w) ==
  [s EXCEPT !.timers = Append(@, [type |-> type, w |-> w, over |-> FALSE]),
            !.pendingWaiters = IF MapHas(@, type) THEN @ ELSE MapSet(@, type, w)]

\* waitForMessage(type): the promise is waiter w; its timer is started, and its
\* entry replaces the one pendingWaiters held for the type. `over` marks the
\* timer of a waiter whose entry was replaced.
waitForMessage(s, type, w) ==
  LET old == IF MapHas(s.pendingWaiters, type)
             THEN {MapGet(s.pendingWaiters, type)} ELSE {}
      marked == [i \in DOMAIN s.timers |->
                   IF s.timers[i].w \in old
                   THEN [s.timers[i] EXCEPT !.over = TRUE] ELSE s.timers[i]]
  IN [s EXCEPT !.timers = Append(marked, [type |-> type, w |-> w, over |-> FALSE]),
               !.pendingWaiters = MapSet(@, type, w)]

onMediaMessage(s, type, handler) ==
  [s EXCEPT !.mediaHandlers = MapSet(@, type, handler)]

offMediaMessage(s, type) ==
  [s EXCEPT !.mediaHandlers = MapDelete(@, type)]

\* clearTimeout(timer) in the wrapper that pendingWaiters holds for waiter w.
clearTimeout(s, w) ==
  [s EXCEPT !.timers = SelectSeq(@, LAMBDA t : t.w # w)]

\* cleanup(): the keepalive interval and the reconnect timer the store holds
\* are cleared.
cleanup(s) ==
  LET s1 == IF s.pingInterval # NONE
            THEN [s EXCEPT !.intervals = @ \ {s.pingInterval}, !.pingInterval = NONE]
            ELSE s
  IN IF s1.reconnectTimeout # NONE
     THEN [s1 EXCEPT !.timeouts = {x \in @ : x.id # s1.reconnectTimeout},
                     !.reconnectTimeout = NONE]
     ELSE s1

\* connect(token): nothing while the current socket is connecting or open.
connect(s, token) ==
  IF s.socket # NONE /\ s.sockets[s.socket].readyState \in {"CONNECTING", "OPEN"}
  THEN s
  ELSE [s EXCEPT !.status = "connecting",
                 !.sockets = Append(@, [token |-> token, readyState |-> "CONNECTING"]),
                 !.socket = Len(s.sockets) + 1]

\* socket.onopen of socket k: the interval it starts has handle k.
onopen(s, k) ==
  [s EXCEPT !.status = "connected", !.pingInterval = k, !.intervals = @ \cup {k}]

\* Mutant: an onclose that does not call cleanup() first.
oncloseNoCleanup(s, k) ==
  [s EXCEPT !.status = "disconnected", !.reconnectTimeout = k,
            !.timeouts = @ \cup {[id |-> k, token |-> s.sockets[k].token]}]

\* socket.onclose of socket k, created by connect(token): the timer it starts
\* has handle k.
onclose(s, k) ==
  LET s1 == cleanup(s)
  IN [s1 EXCEPT !.status = "disconnected", !.reconnectTimeout = k,
                !.timeouts = @ \cup {[id |-> k, token |-> s.sockets[k].token]}]

\* WebSocket.close() of socket k.
close(s, k) ==
  IF s.sockets[k].readyState \in {"CONNECTING", "OPEN"}
  THEN [s EXCEPT !.sockets[k].readyState = "CLOSING"] ELSE s

\* socket.onerror of any socket: the current socket is closed.
onerror(s) == IF s.socket # NONE THEN close(s, s.socket) ELSE s

disconnect(s) ==
  LET s1 == cleanup(s)
      s2 == IF s1.socket # NONE THEN close(s1, s1.socket) ELSE s1
  IN [s2 EXCEPT !.socket = NONE, !.status = "disconnected",
                !.pendingWaiters = <<>>, !.mediaHandlers = <<>>]

\* ------------------------------------------------------------ useMediasoup
Settled == {"done", "skipped", "failed"}

WaiterOf(kind, id) == [kind |-> kind, id |-> id]
Handler(fn, j) == [fn |-> fn, join |-> j]

\* Mutant: joinRoom that registers no handler before it sends media:join.
joinRoomHandlersLate(s, confId) ==
  LET j == Len(s.joins) + 1
      s1 == [s EXCEPT !.conferenceId = confId]
      s5 == waitForMessage(s1, T_CAPS, WaiterOf("caps", j))
      s6 == waitForMessage(s5, T_TRANSPORT, WaiterOf("tr", j))
      s7 == send(s6, Req("media:join", confId, NONE))
  IN [s7 EXCEPT !.joins = Append(@, [confId |-> confId, pc |-> "awaitCaps",
                                      capsMsg |-> NONE, transportMsg |-> NONE,
                                      pendingProducers |-> <<>>,
                                      installedAt |-> NONE, epoch |-> s.leaves,
                                      loadingAt |-> NONE, loadedWith |-> NONE,
                                      createdWith |-> NONE])]

\* joinRoom up to its first await.
joinRoom(s, confId) ==
  LET j == Len(s.joins) + 1
      s1 == [s EXCEPT !.conferenceId = confId]
      s2 == onMediaMessage(s1, T_NEW_PRODUCER, Handler("buffer", j))
      s3 == onMediaMessage(s2, T_PEER_LEFT, Handler("handlePeerLeft", NONE))
      s4 == onMediaMessage(s3, T_PRODUCER_CLOSED, Handler("handleProducerClosed", NONE))
      s5 == waitForMessage(s4, T_CAPS, WaiterOf("caps", j))
      s6 == waitForMessage(s5, T_TRANSPORT, WaiterOf("tr", j))
      s7 == send(s6, Req("media:join", confId, NONE))
  IN [s7 EXCEPT !.joins = Append(@, [confId |-> confId, pc |-> "awaitCaps",
                                      capsMsg |-> NONE, transportMsg |-> NONE,
                                      pendingProducers |-> <<>>,
                                      installedAt |-> NONE, epoch |-> s.leaves,
                                      loadingAt |-> NONE, loadedWith |-> NONE,
                                      createdWith |-> NONE])]

\* Mutant: consumeProducer without the check of recvTransport and device.
consumeProducerUnguarded(s, c) ==
  LET s1 == waitForMessage(s, T_CONSUMER, WaiterOf("cons", c))
      s2 == send(s1, Req("media:consume", s.conferenceId, s.calls[c].producer_id))
  IN [s2 EXCEPT !.calls[c].status = "awaitResult", !.calls[c].startedAt = s.leaves]

\* consumeProducer up to its first await.
consumeProducer(s, c) ==
  IF s.recvTransport = NONE \/ s.device = NONE
  THEN [s EXCEPT !.calls[c].status = "skipped"]
  ELSE LET s1 == waitForMessage(s, T_CONSUMER, WaiterOf("cons", c))
           s2 == send(s1, Req("media:consume", s.conferenceId, s.calls[c].producer_id))
       IN [s2 EXCEPT !.calls[c].status = "awaitResult", !.calls[c].startedAt = s.leaves]

\* consumeProducer from the response to the call of recvTransport.consume:
\* reading .consume of a null recvTransport throws.
consumeProducerResult(s, c, result) ==
  IF s.recvTransport = NONE
  THEN [s EXCEPT !.calls[c].status = "failed", !.calls[c].result = result,
                 !.calls[c].resultAt = s.leaves]
  ELSE [s EXCEPT !.calls[c].status = "awaitConsume", !.calls[c].result = result,
                 !.calls[c].resultAt = s.leaves,
                 !.calls[c].transport = s.recvTransport]

\* consumeProducer after recvTransport.consume has returned the consumer.
consumeProducerAttach(s, c) ==
  LET call == s.calls[c]
      consumer == [id |-> call.result.id, producerId |-> call.result.producer_id,
                   transport |-> call.transport]
      userId == call.user_id
      existing == IF MapHas(s.remoteStreams, userId)
                  THEN MapGet(s.remoteStreams, userId) ELSE {}
  IN [s EXCEPT !.consumers = MapSet(@, consumer.id, consumer),
               !.remoteStreams = MapSet(@, userId, existing \cup {consumer}),
               !.calls[c].status = "done"]

\* Mutant: a chain without .catch, on which a call runs only after the call
\* before it has succeeded.
RunnableAfterSuccess(s, c) ==
  /\ s.calls[c].status = "queued"
  /\ \/ s.calls[c].prev = NONE
     \/ s.calls[s.calls[c].prev].status \in {"done", "skipped"}

\* The promise consumeChain.then(() => consumeProducer(..)).catch(..) of call c
\* is settled when the call is; the call runs when the promise before it is.
Runnable(s, c) ==
  /\ s.calls[c].status = "queued"
  /\ \/ s.calls[c].prev = NONE
     \/ s.calls[s.calls[c].prev].status \in Settled

RECURSIVE runMicrotasks(_)
runMicrotasks(s) ==
  LET ready == {c \in DOMAIN s.calls : Runnable(s, c)}
  IN IF ready = {} THEN s
     ELSE runMicrotasks(consumeProducer(s, CHOOSE c \in ready : \A d \in ready : c <= d))

NoResult == [type |-> NULL, id |-> NONE, producer_id |-> NONE, user_id |-> NULL]

\* Mutant: handleNewProducer that does not store the new end of the chain.
handleNewProducerChainNotStored(s, data) ==
  [s EXCEPT !.calls = Append(@, [producer_id |-> data.producer_id,
                                 user_id |-> data.user_id,
                                 prev |-> s.consumeChain, status |-> "queued",
                                 result |-> NoResult, transport |-> NONE,
                                 epoch |-> s.leaves, startedAt |-> NONE,
                                 resultAt |-> NONE, overlaps |-> {}, left |-> FALSE])]

handleNewProducer(s, data) ==
  LET c == Len(s.calls) + 1
  IN [s EXCEPT !.calls = Append(@, [producer_id |-> data.producer_id,
                                    user_id |-> data.user_id,
                                    prev |-> s.consumeChain, status |-> "queued",
                                    result |-> NoResult, transport |-> NONE,
                                    epoch |-> s.leaves, startedAt |-> NONE,
                                    resultAt |-> NONE, overlaps |-> {}, left |-> FALSE]),
               !.consumeChain = c]

\* The version without the chain. joinRoom up to its first await: it registers
\* no handler yet.
joinRoomUnserialized(s, confId) ==
  LET j == Len(s.joins) + 1
      s1 == [s EXCEPT !.conferenceId = confId]
      s2 == waitForMessage(s1, T_CAPS, WaiterOf("caps", j))
      s3 == waitForMessage(s2, T_TRANSPORT, WaiterOf("tr", j))
      s4 == send(s3, Req("media:join", confId, NONE))
  IN [s4 EXCEPT !.joins = Append(@, [confId |-> confId, pc |-> "awaitCaps",
                                      capsMsg |-> NONE, transportMsg |-> NONE,
                                      pendingProducers |-> <<>>,
                                      installedAt |-> NONE, epoch |-> s.leaves,
                                      loadingAt |-> NONE, loadedWith |-> NONE,
                                      createdWith |-> NONE])]

\* joinRoom of that version from the return of dev.load() to its end.
joinRoomLoadedUnserialized(s, j) ==
  LET s1 == [s EXCEPT !.device = j, !.sendTransport = j, !.recvTransport = j,
                      !.joins[j].createdWith = s.joins[j].transportMsg,
                      !.joins[j].pc = "done", !.joins[j].installedAt = s.announced]
      s2 == onMediaMessage(s1, T_NEW_PRODUCER, Handler("handleNewProducerUnserialized", NONE))
      s3 == onMediaMessage(s2, T_PEER_LEFT, Handler("handlePeerLeft", NONE))
  IN onMediaMessage(s3, T_PRODUCER_CLOSED, Handler("handleProducerClosed", NONE))

\* consumeProducer of that version up to its first await; `overlaps` keeps the
\* calls that were awaiting their response when this one registered its waiter.
consumeProducerUnserialized(s, c) ==
  IF s.recvTransport = NONE \/ s.device = NONE
  THEN [s EXCEPT !.calls[c].status = "skipped"]
  ELSE LET s1 == waitForMessage(s, T_CONSUMER, WaiterOf("cons", c))
           s2 == send(s1, Req("media:consume", s.conferenceId, s.calls[c].producer_id))
       IN [s2 EXCEPT !.calls[c].status = "awaitResult", !.calls[c].startedAt = s.leaves,
                     !.calls[c].overlaps =
                        {d \in DOMAIN s.calls : s.calls[d].status = "awaitResult"}]

\* handleNewProducer of that version calls consumeProducer at once.
handleNewProducerUnserialized(s, data) ==
  LET c == Len(s.calls) + 1
      s1 == [s EXCEPT !.calls = Append(@, [producer_id |-> data.producer_id,
                                           user_id |-> data.user_id,
                                           prev |-> NONE, status |-> "queued",
                                           result |-> NoResult, transport |-> NONE,
                                           epoch |-> s.leaves, startedAt |-> NONE,
                                           resultAt |-> NONE, overlaps |-> {}, left |-> FALSE])]
  IN consumeProducerUnserialized(s1, c)

\* An engine handle (transport, producer, consumer, capture stream) in `closed`.
Handle(k, id) == [k |-> k, id |-> id]

\* `left` marks the announcements of the user that were made before the peer left.
handlePeerLeft(s, data) ==
  LET open == SelectSeq(s.consumers, LAMBDA e : Handle("consumer", e[1]) \notin s.closed)
  IN [s EXCEPT !.remoteStreams = MapDelete(@, data.user_id), !.consumers = open,
               !.calls = [c \in DOMAIN @ |->
                            IF @[c].user_id = data.user_id
                            THEN [@[c] EXCEPT !.left = TRUE] ELSE @[c]]]

handleProducerClosed(s, data) ==
  LET hit == {i \in DOMAIN s.consumers : s.consumers[i][2].producerId = data.producer_id}
  IN IF hit = {} THEN s
     ELSE LET i == CHOOSE x \in hit : \A y \in hit : x <= y
              id == s.consumers[i][1]
          IN [s EXCEPT !.closed = @ \cup {Handle("consumer", id)},
                       !.consumers = MapDelete(@, id)]

\* sendTransport.value.produce({ track }) called by invocation p: the engine
\* queues the operation on the transport. requests, called and timedOut keep
\* what the 'produce' handler of the operation has sent, which of the engine's
\* callbacks it has invoked, and whether its wait has timed out.
transportProduce(s, p, kind) ==
  [s EXCEPT !.ops = Append(@, [proc |-> p, kind |-> kind, transport |-> s.sendTransport,
                               state |-> "queued", id |-> NONE, requests |-> 0,
                               called |-> <<>>, timedOut |-> FALSE])]

\* Mutant: a 'produce' handler that sends its request before and after it
\* registers the wait.
onProduceSendsTwice(s, o) ==
  LET req == ProduceReq(s.joins[s.ops[o].transport].confId, s.ops[o].kind)
      s1 == send(s, req)
      s2 == waitForMessage(s1, T_PRODUCE_RESULT, WaiterOf("prod", o))
      s3 == send(s2, req)
  IN [s3 EXCEPT !.ops[o].state = "awaitResult",
                !.ops[o].requests = Len(s3.sent) - Len(s.sent)]

\* The 'produce' handler of the send transport of join j, to its await.
onProduce(s, o) ==
  LET s1 == waitForMessage(s, T_PRODUCE_RESULT, WaiterOf("prod", o))
      s2 == send(s1, ProduceReq(s.joins[s.ops[o].transport].confId, s.ops[o].kind))
  IN [s2 EXCEPT !.ops[o].state = "awaitResult",
                !.ops[o].requests = Len(s2.sent) - Len(s1.sent)]

\* produceLocalMedia from the return of getUserMedia to the first produce.
produceLocalMediaStream(s, p) ==
  LET s1 == [s EXCEPT !.localStream = p]
  IN IF s.sendTransport = NONE
     THEN [s1 EXCEPT !.procs[p].pc = "done"]
     ELSE transportProduce([s1 EXCEPT !.procs[p].pc = "produceAudio"], p, "audio")

\* startScreenShare from the return of getDisplayMedia to the produce:
\* reading .produce of a null sendTransport throws.
startScreenShareStream(s, p) ==
  IF s.sendTransport = NONE
  THEN [s EXCEPT !.procs[p].pc = "failed"]
  ELSE transportProduce([s EXCEPT !.procs[p].pc = "produceScreen"], p, "screen")

\* The caller of produce() goes on with the producer of id `id`.
producerReady(s, p, kind, id) ==
  CASE kind = "audio" ->
         LET s1 == [s EXCEPT !.producers = MapSet(@, "audio", id)]
         IN IF s.sendTransport = NONE
            THEN [s1 EXCEPT !.procs[p].pc = "failed"]
            ELSE transportProduce([s1 EXCEPT !.procs[p].pc = "produceVideo"], p, "video")
    [] kind = "video" ->
         [s EXCEPT !.producers = MapSet(@, "video", id), !.procs[p].pc = "done"]
    [] kind = "screen" ->
         [s EXCEPT !.screenProducerId = id, !.producers = MapSet(@, "screen", id),
                   !.isScreenSharing = TRUE, !.procs[p].pc = "done"]

\* The track of kind `kind` of the capture stream that invocation p obtained.
Track(p, kind) == [stream |-> p, kind |-> kind]

\* new Producer({ track }) of the engine: the producer starts paused when its
\* track is disabled.
newProducer(s, id, track) ==
  [s EXCEPT !.paused = IF track \in s.disabled THEN @ \cup {id} ELSE @]

\* The track a producer was made for.
trackOf(s, id) ==
  LET o == CHOOSE o \in DOMAIN s.ops : s.ops[o].id = id
  IN Track(s.ops[o].proc, s.ops[o].kind)

\* producer.pause() and producer.resume() of the engine: a closed producer
\* ignores them; otherwise they set paused and the enabled flag of the track.
pause(s, id) ==
  IF Handle("producer", id) \in s.closed THEN s
  ELSE [s EXCEPT !.paused = @ \cup {id}, !.disabled = @ \cup {trackOf(s, id)}]
resume(s, id) ==
  IF Handle("producer", id) \in s.closed THEN s
  ELSE [s EXCEPT !.paused = @ \ {id}, !.disabled = @ \ {trackOf(s, id)}]

\* t.enabled = enabled for the tracks of kind `kind` of the local stream.
setEnabled(s, kind, enabled) ==
  IF s.localStream = NONE THEN s
  ELSE [s EXCEPT !.disabled = IF enabled THEN @ \ {Track(s.localStream, kind)}
                              ELSE @ \cup {Track(s.localStream, kind)}]

toggleMute(s) ==
  LET s1 == [s EXCEPT !.isMuted = ~@]
      s2 == IF MapHas(s1.producers, "audio")
            THEN IF s1.isMuted THEN pause(s1, MapGet(s1.producers, "audio"))
                 ELSE resume(s1, MapGet(s1.producers, "audio"))
            ELSE s1
  IN setEnabled(s2, "audio", ~s2.isMuted)

toggleVideo(s) ==
  LET s1 == [s EXCEPT !.isVideoOn = ~@]
      s2 == IF MapHas(s1.producers, "video")
            THEN IF ~s1.isVideoOn THEN pause(s1, MapGet(s1.producers, "video"))
                 ELSE resume(s1, MapGet(s1.producers, "video"))
            ELSE s1
  IN setEnabled(s2, "video", s2.isVideoOn)

\* callback({ id: result.id }) of the 'produce' handler: produce() returns the
\* producer, or throws when its transport was closed meanwhile.
produceCallback(s, o, result) ==
  LET s1 == [s EXCEPT !.ops[o].called = Append(@, [fn |-> "callback", id |-> result.id])]
  IN IF Handle("send", s.ops[o].transport) \in s.closed
     THEN [s1 EXCEPT !.ops[o].state = "failed", !.procs[s.ops[o].proc].pc = "failed"]
     ELSE producerReady(newProducer([s1 EXCEPT !.ops[o].state = "done",
                                               !.ops[o].id = result.id],
                                    result.id, Track(s.ops[o].proc, s.ops[o].kind)),
                        s.ops[o].proc, s.ops[o].kind, result.id)

\* errback(err) of the 'produce' handler: produce() throws in its caller.
produceErrback(s, o) ==
  [s EXCEPT !.ops[o].state = "failed", !.procs[s.ops[o].proc].pc = "failed",
            !.ops[o].called = Append(@, [fn |-> "errback", id |-> NONE])]

\* produce() on a transport that is closed: the engine rejects it and emits no
\* 'produce' event.
produceRejected(s, o) ==
  [s EXCEPT !.ops[o].state = "failed", !.procs[s.ops[o].proc].pc = "failed"]

\* Mutant: a leaveRoom that clears the producers map without closing them.
leaveRoomProducersOpen(s) ==
  LET s1 == IF s.conferenceId # NULL
            THEN send(s, Req("media:leave", s.conferenceId, NONE)) ELSE s
      closing ==
        {Handle("consumer", s.consumers[i][1]) : i \in DOMAIN s.consumers}
        \cup (IF s.sendTransport # NONE THEN {Handle("send", s.sendTransport)} ELSE {})
        \cup (IF s.recvTransport # NONE THEN {Handle("recv", s.recvTransport)} ELSE {})
        \cup (IF s.localStream # NONE THEN {Handle("stream", s.localStream)} ELSE {})
      s2 == [s1 EXCEPT !.closed = @ \cup closing,
                       !.producers = <<>>, !.consumers = <<>>,
                       !.sendTransport = NONE, !.recvTransport = NONE,
                       !.localStream = NONE, !.remoteStreams = <<>>,
                       !.device = NONE, !.conferenceId = NULL,
                       !.isMuted = FALSE, !.isVideoOn = TRUE,
                       !.isScreenSharing = FALSE, !.consumeChain = NONE,
                       !.leaves = @ + 1]
  IN offMediaMessage(offMediaMessage(offMediaMessage(s2, T_NEW_PRODUCER), T_PEER_LEFT),
                     T_PRODUCER_CLOSED)

\* Mutant: a leaveRoom that keeps the conference id.
leaveRoomKeepsConference(s) ==
  LET s1 == IF s.conferenceId # NULL
            THEN send(s, Req("media:leave", s.conferenceId, NONE)) ELSE s
      closing ==
        {Handle("producer", s.producers[i][2]) : i \in DOMAIN s.producers}
        \cup {Handle("consumer", s.consumers[i][1]) : i \in DOMAIN s.consumers}
        \cup (IF s.sendTransport # NONE THEN {Handle("send", s.sendTransport)} ELSE {})
        \cup (IF s.recvTransport # NONE THEN {Handle("recv", s.recvTransport)} ELSE {})
        \cup (IF s.localStream # NONE THEN {Handle("stream", s.localStream)} ELSE {})
      s2 == [s1 EXCEPT !.closed = @ \cup closing,
                       !.producers = <<>>, !.consumers = <<>>,
                       !.sendTransport = NONE, !.recvTransport = NONE,
                       !.localStream = NONE, !.remoteStreams = <<>>,
                       !.device = NONE,
                       !.isMuted = FALSE, !.isVideoOn = TRUE,
                       !.isScreenSharing = FALSE, !.consumeChain = NONE,
                       !.leaves = @ + 1]
  IN offMediaMessage(offMediaMessage(offMediaMessage(s2, T_NEW_PRODUCER), T_PEER_LEFT),
                     T_PRODUCER_CLOSED)

leaveRoom(s) ==
  LET s1 == IF s.conferenceId # NULL
            THEN send(s, Req("media:leave", s.conferenceId, NONE)) ELSE s
      closing ==
        {Handle("producer", s.producers[i][2]) : i \in DOMAIN s.producers}
        \cup {Handle("consumer", s.consumers[i][1]) : i \in DOMAIN s.consumers}
        \cup (IF s.sendTransport # NONE THEN {Handle("send", s.sendTransport)} ELSE {})
        \cup (IF s.recvTransport # NONE THEN {Handle("recv", s.recvTransport)} ELSE {})
        \cup (IF s.localStream # NONE THEN {Handle("stream", s.localStream)} ELSE {})
      s2 == [s1 EXCEPT !.closed = @ \cup closing,
                       !.producers = <<>>, !.consumers = <<>>,
                       !.sendTransport = NONE, !.recvTransport = NONE,
                       !.localStream = NONE, !.remoteStreams = <<>>,
                       !.device = NONE, !.conferenceId = NULL,
                       !.isMuted = FALSE, !.isVideoOn = TRUE,
                       !.isScreenSharing = FALSE, !.consumeChain = NONE,
                       !.leaves = @ + 1]
  IN offMediaMessage(offMediaMessage(offMediaMessage(s2, T_NEW_PRODUCER), T_PEER_LEFT),
                     T_PRODUCER_CLOSED)

\* Mutant: a drain that handles the buffered announcements last-in first-out.
RECURSIVE drainReversed(_, _)
drainReversed(s, ps) ==
  IF ps = <<>> THEN s
  ELSE drainReversed(handleNewProducer(s, ps[Len(ps)]), SubSeq(ps, 1, Len(ps) - 1))

\* for (const p of pendingProducers) handleNewProducer(p)
RECURSIVE drain(_, _)
drain(s, ps) == IF ps = <<>> THEN s ELSE drain(handleNewProducer(s, Head(ps)), Tail(ps))

\* Mutant: a joinRoom whose end stores the transports and no device.
joinRoomLoadedNoDevice(s, j) ==
  LET s1 == [s EXCEPT !.sendTransport = j, !.recvTransport = j,
                      !.joins[j].createdWith = s.joins[j].transportMsg,
                      !.joins[j].pc = "done", !.joins[j].installedAt = s.announced]
      s2 == onMediaMessage(s1, T_NEW_PRODUCER, Handler("handleNewProducer", NONE))
  IN drain(s2, s.joins[j].pendingProducers)

\* joinRoom from the return of dev.load() to its end: the transports are
\* created with the ids of transportMsg.
joinRoomLoaded(s, j) ==
  LET s1 == [s EXCEPT !.device = j, !.sendTransport = j, !.recvTransport = j,
                      !.joins[j].createdWith = s.joins[j].transportMsg,
                      !.joins[j].pc = "done", !.joins[j].installedAt = s.announced]
      s2 == onMediaMessage(s1, T_NEW_PRODUCER, Handler("handleNewProducer", NONE))
  IN drain(s2, s.joins[j].pendingProducers)

\* joinRoom past its two awaits: dev.load({ routerRtpCapabilities }) is called
\* with the capabilities of capsMsg.
joinRoomLoad(s, j) ==
  [s EXCEPT !.joins[j].pc = "loading", !.joins[j].loadingAt = s.leaves,
            !.joins[j].loadedWith = s.joins[j].capsMsg]

\* Mutant: a joinRoom that does not await transportPromise before it loads.
joinRoomAwaitTransportNoWait(s, j) ==
  IF s.joins[j].transportMsg = REJECTED
  THEN [s EXCEPT !.joins[j].pc = "failed"]
  ELSE joinRoomLoad(s, j)

\* joinRoom at "await transportPromise", once capabilitiesPromise is fulfilled.
joinRoomAwaitTransport(s, j) ==
  LET tm == s.joins[j].transportMsg
  IN IF tm = REJECTED THEN [s EXCEPT !.joins[j].pc = "failed"]
     ELSE IF tm # NONE THEN joinRoomLoad(s, j)
     ELSE [s EXCEPT !.joins[j].pc = "awaitTransport"]

\* The promise of waiter w is fulfilled with msg: the code awaiting it goes on.
resolve(s, w, msg) ==
  CASE w.kind = "caps" ->
         LET s1 == [s EXCEPT !.joins[w.id].capsMsg = msg.id]
         IN IF s.joins[w.id].pc = "awaitCaps" THEN joinRoomAwaitTransport(s1, w.id) ELSE s1
    [] w.kind = "tr" ->
         LET s1 == [s EXCEPT !.joins[w.id].transportMsg = msg.id]
         IN IF s.joins[w.id].pc = "awaitTransport"
            THEN joinRoomLoad(s1, w.id) ELSE s1
    [] w.kind = "cons" -> consumeProducerResult(s, w.id, msg)
    [] w.kind = "prod" -> produceCallback(s, w.id, msg)
    [] w.kind = "client" -> [s EXCEPT !.clients[w.id].outcome = msg.id]

\* The promise of waiter w is rejected: the function awaiting it throws.
reject(s, w) ==
  CASE w.kind = "caps" ->
         [s EXCEPT !.joins[w.id].capsMsg = REJECTED,
                   !.joins[w.id].pc = IF @ = "awaitCaps" THEN "failed" ELSE @]
    [] w.kind = "tr" ->
         [s EXCEPT !.joins[w.id].transportMsg = REJECTED,
                   !.joins[w.id].pc = IF @ = "awaitTransport" THEN "failed" ELSE @]
    [] w.kind = "cons" -> [s EXCEPT !.calls[w.id].status = "failed"]
    [] w.kind = "prod" -> produceErrback(s, w.id)
    [] w.kind = "client" -> [s EXCEPT !.clients[w.id].outcome = REJECTED]

\* The callback of the timer waitForMessage started for the first live timer.
timeout(s) ==
  LET t == Head(s.timers)
      s1 == [s EXCEPT !.timers = Tail(@), !.pendingWaiters = MapDelete(@, t.type)]
      s2 == IF t.w.kind = "prod" THEN [s1 EXCEPT !.ops[t.w.id].timedOut = TRUE] ELSE s1
  IN reject(s2, t.w)

\* A persistent handler is invoked.
invoke(s, h, msg) ==
  CASE h.fn = "buffer" -> [s EXCEPT !.joins[h.join].pendingProducers = Append(@, msg)]
    [] h.fn = "handleNewProducer" -> handleNewProducer(s, msg)
    [] h.fn = "handleNewProducerUnserialized" -> handleNewProducerUnserialized(s, msg)
    [] h.fn = "handlePeerLeft" -> handlePeerLeft(s, msg)
    [] h.fn = "handleProducerClosed" -> handleProducerClosed(s, msg)
    [] h.fn = "client" ->
         [s EXCEPT !.invoked = @ \cup {[type |-> msg.type, registered |-> h.join,
                                        received |-> msg.id]}]

\* Mutant: a dispatch that looks for the persistent handler first.
handleMessageHandlerFirst(s, msg) ==
  IF MapHas(s.mediaHandlers, msg.type)
  THEN invoke(s, MapGet(s.mediaHandlers, msg.type), msg)
  ELSE IF MapHas(s.pendingWaiters, msg.type)
  THEN LET w == MapGet(s.pendingWaiters, msg.type)
           s1 == [s EXCEPT !.pendingWaiters = MapDelete(@, msg.type)]
       IN resolve(clearTimeout(s1, w), w, msg)
  ELSE [s EXCEPT !.dropped = @ \cup {<<msg.type, s.conferenceId # NULL>>}]

handleMessage(s, msg) ==
  IF MapHas(s.pendingWaiters, msg.type)
  THEN LET w == MapGet(s.pendingWaiters, msg.type)
           s1 == [s EXCEPT !.pendingWaiters = MapDelete(@, msg.type)]
       IN resolve(clearTimeout(s1, w), w, msg)
  ELSE IF MapHas(s.mediaHandlers, msg.type)
  THEN invoke(s, MapGet(s.mediaHandlers, msg.type), msg)
  ELSE [s EXCEPT !.dropped = @ \cup {<<msg.type, s.conferenceId # NULL>>}]

\* ------------------------------------------------------------ the actions
\* ------------------------------------------------------- useActiveSpeaker
HOLD_MS == 1500
POLL_MS == 200
\* 0.08; levels are counted in hundredths
SPEAK_THRESHOLD == 8

\* The levels an analyser may measure (RMS of its frequency data, in hundredths).
Levels == {8, 20, 50}
\* The keys of remoteStreams while the view polls, and the streams behind them.
StreamKeys == Users \cup {"u1:screen"}
Streams == {{[kind |-> "audio"]}, {[kind |-> "video"]}}
\* The entries of the Map the composable is given: a stream and what it shows.
RemoteStream == [stream : Streams, source : {"camera", "screen"}]

getAudioTracks(stream) == {track \in stream : track.kind = "audio"}
\* key.endsWith(':screen'), for the keys that are a user id or a user id with a suffix
endsWithScreen(key) == \E u \in Users : key = u \o ":screen"
\* What the layout shows as a screen share (participants: isScreen).
isScreen(streamKey, remote) == endsWithScreen(streamKey) \/ remote.source = "screen"

\* useActiveSpeaker(remoteStreams), and the view before the user joins.
SpeakerCreated ==
  /\ activeSpeaker = [audioLevels |-> <<>>, activeSpeakerKey |-> NULL,
                      pollInterval |-> NONE, analysers |-> <<>>,
                      lastSpeakerKey |-> NULL, lastSpeakerTime |-> 0,
                      audioContext |-> NONE]
  /\ audio = [now |-> 0, view |-> "created", changes |-> 0, heard |-> {}, heardAt |-> 0,
              intervals |-> {}, contexts |-> {}]

\* ---------------------------------------------------- useConferenceLayout
MAX_PINS == 6

\* loadPrefs(): the stored preferences, a field that is missing replaced by its
\* default; the defaults when nothing is stored.
\* The item is the set of what is stored under the key: empty, or one value.
loadPrefs(stored) ==
  IF stored = {}
  THEN [mode |-> "auto", tiledMaxTiles |-> 16, selfViewMode |-> "in-grid-cropped",
        hideNonVideo |-> FALSE, pinnedStreamKeys |-> <<>>]
  ELSE LET parsed == CHOOSE v \in stored : TRUE
       IN [mode |-> parsed.mode, tiledMaxTiles |-> parsed.tiledMaxTiles,
           selfViewMode |-> parsed.selfViewMode, hideNonVideo |-> parsed.hideNonVideo,
           pinnedStreamKeys |-> parsed.pinnedStreamKeys]

\* useConferenceLayout(...) of a browser that has stored nothing yet.
\* returned: the last call of togglePin and what it returned; localDisplayName:
\* the place of the user's name in the order of localeCompare; calls: the
\* calls of the setters so far.
LayoutCreated ==
  /\ localStorage = {}
  /\ layoutCtrl = [prefs |-> loadPrefs({}),
                   returned |-> [streamKey |-> NULL, value |-> TRUE],
                   localDisplayName |-> 95, calls |-> 0]

\* useMediasoup() on a connected ws store.
Constructed ==
  /\ device = NONE /\ sendTransport = NONE /\ recvTransport = NONE
  /\ producers = <<>> /\ consumers = <<>> /\ remoteStreams = <<>>
  /\ localStream = NONE /\ isMuted = FALSE /\ isVideoOn = TRUE
  /\ isScreenSharing = FALSE /\ conferenceId = NULL /\ screenProducerId = NONE
  /\ consumeChain = NONE
  /\ sockets = <<[token |-> "t1", readyState |-> "OPEN"]>> /\ socket = 1
  /\ status = "connected" /\ pingInterval = 1 /\ intervals = {1}
  /\ reconnectTimeout = NONE /\ timeouts = {}
  /\ clients = <<>> /\ invoked = {} /\ received = <<>> /\ channelCalls = 0
  /\ pendingWaiters = <<>> /\ mediaHandlers = <<>> /\ timers = <<>>
  /\ joins = <<>> /\ calls = <<>> /\ procs = <<>> /\ ops = <<>>
  /\ closed = {} /\ sent = <<>> /\ inflight = {} /\ paused = {} /\ disabled = {}
  /\ leaves = 0 /\ announced = 0 /\ pushes = 0 /\ dropped = {}
  /\ SpeakerCreated
  /\ LayoutCreated

Init == Constructed /\ budget = MaxEvents

\* The view calls joinRoom when it is neither joined nor joining.
JoinRoom ==
  /\ conferenceId = NULL
  /\ Events < budget
  /\ \E confId \in Confs : Becomes(runMicrotasks(joinRoom(Cur, confId)))

LeaveRoom ==
  /\ Events < budget
  /\ Becomes(runMicrotasks(leaveRoom(Cur)))

\* The socket delivers the answer to a request.
Receive ==
  \E msg \in inflight :
    Becomes(runMicrotasks(handleMessage([Cur EXCEPT !.inflight = @ \ {msg}], msg)))

\* The socket delivers the announcement of the next producer.
ReceiveNewProducer ==
  /\ Len(sent) > 0
  /\ Events < budget
  /\ LET p == announced + 1
     IN Becomes(runMicrotasks(handleMessage([Cur EXCEPT !.announced = p],
                                            Msg(T_NEW_PRODUCER, NONE, p, Owner(p)))))

ReceivePeerLeft ==
  /\ Len(sent) > 0
  /\ Events < budget
  /\ \E u \in Users :
       Becomes(runMicrotasks(handleMessage([Cur EXCEPT !.pushes = @ + 1],
                                           Msg(T_PEER_LEFT, NONE, NONE, u))))

ReceiveProducerClosed ==
  /\ Events < budget
  /\ \E p \in 1..announced :
       Becomes(runMicrotasks(handleMessage([Cur EXCEPT !.pushes = @ + 1],
                                           Msg(T_PRODUCER_CLOSED, NONE, p, Owner(p)))))

\* Timers of equal delay fire in the order they were started.
Timeout ==
  /\ timers # <<>>
  /\ Becomes(runMicrotasks(timeout(Cur)))

\* dev.load() returns.
DeviceLoaded ==
  \E j \in DOMAIN joins :
    /\ joins[j].pc = "loading"
    /\ Becomes(runMicrotasks(joinRoomLoaded(Cur, j)))

\* The same two steps of the version without the chain.
JoinRoomUnserialized ==
  /\ conferenceId = NULL
  /\ Events < budget
  /\ \E confId \in Confs : Becomes(runMicrotasks(joinRoomUnserialized(Cur, confId)))

DeviceLoadedUnserialized ==
  \E j \in DOMAIN joins :
    /\ joins[j].pc = "loading"
    /\ Becomes(runMicrotasks(joinRoomLoadedUnserialized(Cur, j)))

\* recvTransport.consume() returns, or throws when its transport was closed.
ConsumeReturns ==
  \E c \in DOMAIN calls :
    /\ calls[c].status = "awaitConsume"
    /\ Becomes(runMicrotasks(
         IF Handle("recv", calls[c].transport) \in closed
         THEN [Cur EXCEPT !.calls[c].status = "failed"]
         ELSE consumeProducerAttach(Cur, c)))

ProduceLocalMedia ==
  /\ Events + 1 < budget
  /\ Becomes([Cur EXCEPT !.procs = Append(@, [fn |-> "produceLocalMedia",
                                              pc |-> "getUserMedia"])])

\* navigator.mediaDevices.getUserMedia returns the capture stream.
GetUserMediaReturns ==
  \E p \in DOMAIN procs :
    /\ procs[p].pc = "getUserMedia"
    /\ Becomes(runMicrotasks(produceLocalMediaStream(Cur, p)))

StartScreenShare ==
  /\ Events + 1 < budget
  /\ Becomes([Cur EXCEPT !.procs = Append(@, [fn |-> "startScreenShare",
                                              pc |-> IF sendTransport = NONE THEN "done"
                                                     ELSE "getDisplayMedia"])])

\* navigator.mediaDevices.getDisplayMedia returns the screen stream.
GetDisplayMediaReturns ==
  \E p \in DOMAIN procs :
    /\ procs[p].pc = "getDisplayMedia"
    /\ Becomes(runMicrotasks(startScreenShareStream(Cur, p)))

\* The engine runs the operations of a transport one at a time: it emits
\* 'produce' for the first unfinished one, or fails it when the transport is closed.
ProduceEvent ==
  \E o \in DOMAIN ops :
    /\ ops[o].state = "queued"
    /\ \A q \in DOMAIN ops :
         (q < o /\ ops[q].transport = ops[o].transport)
           => ops[q].state \in {"done", "failed"}
    /\ Becomes(runMicrotasks(
         IF Handle("send", ops[o].transport) \in closed
         THEN produceRejected(Cur, o)
         ELSE onProduce(Cur, o)))

\* ---------------------------------------------- the ws store on its own
\* The store before the first connect().
InitChannel ==
  /\ device = NONE /\ sendTransport = NONE /\ recvTransport = NONE
  /\ producers = <<>> /\ consumers = <<>> /\ remoteStreams = <<>>
  /\ localStream = NONE /\ isMuted = FALSE /\ isVideoOn = TRUE
  /\ isScreenSharing = FALSE /\ conferenceId = NULL /\ screenProducerId = NONE
  /\ consumeChain = NONE
  /\ sockets = <<>> /\ socket = NONE
  /\ status = "disconnected" /\ pingInterval = NONE /\ intervals = {}
  /\ reconnectTimeout = NONE /\ timeouts = {}
  /\ clients = <<>> /\ invoked = {} /\ received = <<>> /\ channelCalls = 0
  /\ pendingWaiters = <<>> /\ mediaHandlers = <<>> /\ timers = <<>>
  /\ joins = <<>> /\ calls = <<>> /\ procs = <<>> /\ ops = <<>>
  /\ closed = {} /\ sent = <<>> /\ inflight = {} /\ paused = {} /\ disabled = {}
  /\ leaves = 0 /\ announced = 0 /\ pushes = 0 /\ dropped = {}
  /\ budget = MaxEvents
  /\ SpeakerCreated
  /\ LayoutCreated

\* The state with one more call or event of the channel counted.
Counted == [Cur EXCEPT !.channelCalls = @ + 1]
\* The socket a caller's registration is made on: the current one while it is
\* connecting or open.
Live(s) ==
  IF s.socket # NONE /\ s.sockets[s.socket].readyState \in {"CONNECTING", "OPEN"}
  THEN s.socket ELSE NONE

\* useAuth / LoginView / useWebSocket call connect(token).
Connect ==
  /\ channelCalls < budget
  /\ \E token \in Tokens : Becomes(connect(Counted, token))

\* useAuth / useWebSocket call disconnect().
Disconnect ==
  /\ channelCalls < budget
  /\ Becomes(disconnect(Counted))

\* The connection of socket k is established.
SocketOpens ==
  \E k \in DOMAIN sockets :
    /\ sockets[k].readyState = "CONNECTING"
    /\ Becomes(onopen([Cur EXCEPT !.sockets[k].readyState = "OPEN"], k))

\* Socket k is closed: the end of a close() or, unexpectedly, the network.
SocketCloses ==
  \E k \in DOMAIN sockets :
    /\ sockets[k].readyState # "CLOSED"
    /\ sockets[k].readyState = "CLOSING" \/ channelCalls < budget
    /\ Becomes(runMicrotasks(onclose(
         [Cur EXCEPT !.sockets[k].readyState = "CLOSED",
                     !.channelCalls = IF sockets[k].readyState = "CLOSING"
                                      THEN @ ELSE @ + 1], k)))

\* Socket k reports an error.
SocketError ==
  /\ channelCalls < budget
  /\ \E k \in DOMAIN sockets :
       /\ sockets[k].readyState \in {"CONNECTING", "OPEN"}
       /\ Becomes(onerror(Counted))

\* The reconnect timer of 3000 ms fires.
ReconnectFires ==
  \E x \in timeouts :
    Becomes(connect([Cur EXCEPT !.timeouts = @ \ {x}], x.token))

\* Some caller awaits waitForMessage(type).
ClientWaits ==
  /\ channelCalls < budget
  /\ \E type \in {T_NEW_PRODUCER, T_CONSUMER} :
       LET n == Len(clients) + 1
           s == [Counted EXCEPT !.clients = Append(@, [type |-> type,
                                                        registered |-> Live(Cur),
                                                        outcome |-> NONE])]
       IN Becomes(waitForMessage(s, type, WaiterOf("client", n)))

\* Some caller registers a persistent handler.
ClientRegisters ==
  /\ channelCalls < budget
  /\ \E type \in {T_NEW_PRODUCER, T_CONSUMER} :
       Becomes(onMediaMessage(Counted, type, Handler("client", Live(Cur))))

ClientDeregisters ==
  /\ channelCalls < budget
  /\ \E type \in {T_NEW_PRODUCER, T_CONSUMER} :
       /\ MapHas(mediaHandlers, type)
       /\ Becomes(offMediaMessage(Counted, type))

\* socket.onmessage of the open socket k; the payload names the socket.
Deliver ==
  /\ channelCalls < budget
  /\ \E k \in DOMAIN sockets : \E type \in {T_NEW_PRODUCER, T_CONSUMER} :
       /\ sockets[k].readyState = "OPEN"
       /\ LET msg == Msg(type, k, NONE, NULL)
          IN Becomes(runMicrotasks(handleMessage(
               [Counted EXCEPT !.received = Append(@, msg)], msg)))

NextChannel ==
  \/ Connect
  \/ Disconnect
  \/ SocketOpens
  \/ SocketCloses
  \/ SocketError
  \/ ReconnectFires
  \/ ClientWaits
  \/ ClientRegisters
  \/ ClientDeregisters
  \/ Deliver
  \/ Timeout

SpecChannel == InitChannel /\ [][NextChannel]_vars

\* ------------------------------------------- useActiveSpeaker: its functions
\* A handle the browser has not given to an interval or a context in use.
Fresh(used) == CHOOSE n \in 1..(Cardinality(used) + 1) : n \notin used

\* audio.contexts: the AudioContexts that are open.
getOrCreateAudioContext(s) ==
  IF s.activeSpeaker.audioContext # NONE THEN s
  ELSE LET ctx == Fresh(s.audio.contexts)
       IN [s EXCEPT !.activeSpeaker.audioContext = ctx, !.audio.contexts = @ \cup {ctx}]

addStream(s, streamKey, stream) ==
  IF MapHas(s.activeSpeaker.analysers, streamKey) THEN s
  ELSE IF getAudioTracks(stream) = {} THEN s
  ELSE [getOrCreateAudioContext(s) EXCEPT
          !.activeSpeaker.analysers = MapSet(@, streamKey, stream)]

removeStream(s, streamKey) ==
  [s EXCEPT !.activeSpeaker.analysers = MapDelete(@, streamKey),
            !.activeSpeaker.audioLevels = MapDelete(@, streamKey)]

RECURSIVE addStreams(_, _)
addStreams(s, i) ==
  IF i > Len(s.remoteStreams) THEN s
  ELSE LET key == s.remoteStreams[i][1]
       IN IF endsWithScreen(key) THEN addStreams(s, i + 1)
          ELSE addStreams(addStream(s, key, s.remoteStreams[i][2].stream), i + 1)

RECURSIVE removeStale(_, _)
removeStale(s, keys) ==
  IF keys = <<>> THEN s
  ELSE removeStale(IF MapHas(s.remoteStreams, Head(keys)) THEN s
                   ELSE removeStream(s, Head(keys)),
                   Tail(keys))

syncStreams(s) ==
  LET s1 == addStreams(s, 1)
  IN removeStale(s1, [i \in DOMAIN s1.activeSpeaker.analysers |->
                        s1.activeSpeaker.analysers[i][1]])

\* Mutant: the first key above the threshold, whatever the others measure.
RECURSIVE loudestFirstAbove(_, _, _, _, _)
loudestFirstAbove(analysers, rms, i, maxLevel, maxKey) ==
  IF i > Len(analysers) THEN maxKey
  ELSE LET key == analysers[i][1]
       IN IF maxKey = NULL /\ rms[key] > SPEAK_THRESHOLD
          THEN loudestFirstAbove(analysers, rms, i + 1, rms[key], key)
          ELSE loudestFirstAbove(analysers, rms, i + 1, maxLevel, maxKey)

\* The loop of poll over the analysers: the loudest key above the threshold, the
\* first of them in the order of the Map when several measure the same.
RECURSIVE loudest(_, _, _, _, _)
loudest(analysers, rms, i, maxLevel, maxKey) ==
  IF i > Len(analysers) THEN maxKey
  ELSE LET key == analysers[i][1]
       IN IF rms[key] > maxLevel /\ rms[key] > SPEAK_THRESHOLD
          THEN loudest(analysers, rms, i + 1, rms[key], key)
          ELSE loudest(analysers, rms, i + 1, maxLevel, maxKey)

\* poll without the hold time: no candidate, no active speaker.
pollNoHold(s, rms) ==
  LET analysers == s.activeSpeaker.analysers
      maxKey == loudest(analysers, rms, 1, 0, NULL)
      s1 == [s EXCEPT !.activeSpeaker.audioLevels =
                        [i \in DOMAIN analysers |-> <<analysers[i][1], rms[analysers[i][1]]>>]]
  IN IF maxKey # NULL
     THEN [s1 EXCEPT !.activeSpeaker.lastSpeakerKey = maxKey,
                     !.activeSpeaker.lastSpeakerTime = s.audio.now,
                     !.activeSpeaker.activeSpeakerKey = maxKey]
     ELSE [s1 EXCEPT !.activeSpeaker.activeSpeakerKey = NULL,
                     !.activeSpeaker.lastSpeakerKey = NULL]

\* poll(), with rms the level each analyser measures now.
poll(s, rms) ==
  LET now == s.audio.now
      analysers == s.activeSpeaker.analysers
      maxKey == loudest(analysers, rms, 1, 0, NULL)
      s1 == [s EXCEPT !.activeSpeaker.audioLevels =
                        [i \in DOMAIN analysers |-> <<analysers[i][1], rms[analysers[i][1]]>>]]
  IN IF maxKey # NULL
     THEN [s1 EXCEPT !.activeSpeaker.lastSpeakerKey = maxKey,
                     !.activeSpeaker.lastSpeakerTime = now,
                     !.activeSpeaker.activeSpeakerKey = maxKey]
     ELSE IF /\ s.activeSpeaker.lastSpeakerKey # NULL
             /\ now - s.activeSpeaker.lastSpeakerTime > HOLD_MS
     THEN [s1 EXCEPT !.activeSpeaker.activeSpeakerKey = NULL,
                     !.activeSpeaker.lastSpeakerKey = NULL]
     ELSE s1

\* setInterval and clearInterval; audio.intervals: the intervals that are running.
setPollInterval(s) ==
  LET id == Fresh(s.audio.intervals)
  IN [s EXCEPT !.activeSpeaker.pollInterval = id, !.audio.intervals = @ \cup {id}]

\* Mutant: start() that does not look at pollInterval.
startUnguarded(s) == setPollInterval(syncStreams(s))

start(s) ==
  IF s.activeSpeaker.pollInterval # NONE THEN s
  ELSE setPollInterval(syncStreams(s))

RECURSIVE removeStreams(_, _)
removeStreams(s, keys) ==
  IF keys = <<>> THEN s ELSE removeStreams(removeStream(s, Head(keys)), Tail(keys))

stop(s) ==
  LET analysers == s.activeSpeaker.analysers
      s1 == removeStreams(s, [i \in DOMAIN analysers |-> analysers[i][1]])
  IN [s1 EXCEPT !.audio.intervals = @ \ {s.activeSpeaker.pollInterval},
                !.activeSpeaker.pollInterval = NONE,
                !.activeSpeaker.analysers = <<>>,
                !.activeSpeaker.audioLevels = <<>>,
                !.activeSpeaker.activeSpeakerKey = NULL,
                !.activeSpeaker.lastSpeakerKey = NULL,
                !.audio.contexts = @ \ {s.activeSpeaker.audioContext},
                !.activeSpeaker.audioContext = NONE]

\* handleJoin of the conference view, once per view: activeSpeaker.start().
Start ==
  /\ audio.view = "created"
  /\ Becomes(start([Cur EXCEPT !.audio.view = "joined"]))

\* handleLeave of the conference view, which then leaves the page:
\* activeSpeaker.stop().
Stop ==
  /\ audio.view = "joined"
  /\ Becomes(stop([Cur EXCEPT !.audio.view = "left"]))

\* A remote stream is stored under a key, or replaced by a new MediaStream.
StreamSet ==
  \E key \in StreamKeys, remote \in RemoteStream :
    /\ audio.changes < MaxStreamChanges
    /\ IF MapHas(remoteStreams, key) THEN MapGet(remoteStreams, key) # remote ELSE TRUE
    /\ Becomes([Cur EXCEPT !.remoteStreams = MapSet(@, key, remote),
                            !.audio.changes = @ + 1])

\* A remote stream is deleted.
StreamDeleted ==
  \E key \in MapKeys(remoteStreams) :
    /\ audio.changes < MaxStreamChanges
    /\ Becomes([Cur EXCEPT !.remoteStreams = MapDelete(@, key),
                            !.audio.changes = @ + 1])

\* The interval fires POLL_MS after the poll before it: syncStreams(); poll().
\* audio.heard and audio.heardAt keep the streams that were above the threshold in
\* the last poll in which one was, and the time of that poll.
Poll ==
  /\ audio.intervals # {}
  /\ audio.now < MaxPolls * POLL_MS
  /\ LET s1 == syncStreams([Cur EXCEPT !.audio.now = @ + POLL_MS])
         keys == MapKeys(s1.activeSpeaker.analysers)
     IN \E rms \in [keys -> Levels] :
          LET above == {key \in keys : rms[key] > SPEAK_THRESHOLD}
              s2 == IF above = {} THEN s1
                    ELSE [s1 EXCEPT !.audio.heard = above, !.audio.heardAt = s1.audio.now]
          IN Becomes(poll(s2, rms))

NextSpeaker ==
  \/ Start
  \/ Stop
  \/ StreamSet
  \/ StreamDeleted
  \/ Poll

SpecSpeaker == Init /\ [][NextSpeaker]_vars

\* The composable under any caller, while its page is there: start() and
\* stop() in any order.
CallStart ==
  /\ audio.view # "left"
  /\ Becomes(start([Cur EXCEPT !.audio.view = "started"]))

CallStop ==
  /\ audio.view # "left"
  /\ Becomes(stop([Cur EXCEPT !.audio.view = "stopped"]))

NextMonitor ==
  \/ CallStart
  \/ CallStop
  \/ StreamSet
  \/ StreamDeleted
  \/ Poll

SpecMonitor == Init /\ [][NextMonitor]_vars

\* -------------------------------------- useConferenceLayout: its functions
\* watch(prefs, savePrefs, {deep: true}): every change of prefs is stored.
savePrefs(s) == [s EXCEPT !.localStorage = {s.layoutCtrl.prefs}]

indexOf(list, x) ==
  IF \E i \in DOMAIN list : list[i] = x
  THEN CHOOSE i \in DOMAIN list : list[i] = x /\ \A j \in 1..(i - 1) : list[j] # x
  ELSE 0

\* splice(idx, 1)
splice(list, idx) == [i \in 1..(Len(list) - 1) |-> IF i < idx THEN list[i] ELSE list[i + 1]]

\* Mutant: togglePin without the cap.
togglePinUncapped(s, streamKey) ==
  LET pinned == s.layoutCtrl.prefs.pinnedStreamKeys
      idx == indexOf(pinned, streamKey)
  IN savePrefs([s EXCEPT !.layoutCtrl.prefs.pinnedStreamKeys =
                           IF idx >= 1 THEN splice(pinned, idx) ELSE Append(pinned, streamKey),
                         !.layoutCtrl.returned = [streamKey |-> streamKey, value |-> TRUE]])

togglePin(s, streamKey) ==
  LET pinned == s.layoutCtrl.prefs.pinnedStreamKeys
      idx == indexOf(pinned, streamKey)
  IN IF idx >= 1
     THEN savePrefs([s EXCEPT !.layoutCtrl.prefs.pinnedStreamKeys = splice(pinned, idx),
                              !.layoutCtrl.returned = [streamKey |-> streamKey, value |-> TRUE]])
     ELSE IF Len(pinned) >= MAX_PINS
     THEN [s EXCEPT !.layoutCtrl.returned = [streamKey |-> streamKey, value |-> FALSE]]
     ELSE savePrefs([s EXCEPT !.layoutCtrl.prefs.pinnedStreamKeys = Append(pinned, streamKey),
                              !.layoutCtrl.returned = [streamKey |-> streamKey, value |-> TRUE]])

\* The tiles of a full room: the user pins by clicking a tile.
PinKeys == {"local", "u1", "u2", "u3", "u4", "u5", "u6"}

TogglePin ==
  \E streamKey \in PinKeys :
    /\ streamKey # NULL
    /\ Becomes(togglePin(Cur, streamKey))

\* The page is opened again: useConferenceLayout() reads what was stored.
Reload ==
  /\ layoutCtrl.returned.streamKey # NULL
  /\ Becomes([Cur EXCEPT !.layoutCtrl.prefs = loadPrefs(localStorage),
                          !.layoutCtrl.returned = [streamKey |-> NULL, value |-> TRUE]])

NextPins ==
  \/ TogglePin
  \/ Reload

SpecPins == Init /\ [][NextPins]_vars

\* -------------------------------------------- useConferenceLayout: layout
\* A display name is the place of the user's name in the order of localeCompare,
\* doubled; the name with ' (Screen)' appended comes right after the name.
getDisplayName(userId) ==
  CASE userId = "u1" -> 10 [] userId = "u2" -> 20 [] userId = "u3" -> 30
    [] userId = "u4" -> 40 [] OTHER -> 50
localeCompare(a, b) == IF a < b THEN -1 ELSE IF a > b THEN 1 ELSE 0

VideoTrack == [kind |-> "video", enabled |-> TRUE, readyState |-> "live"]
AudioTrack == [kind |-> "audio", enabled |-> TRUE, readyState |-> "live"]

hasLiveVideoTrack(stream) ==
  \E track \in stream : track.kind = "video" /\ track.enabled /\ track.readyState = "live"

\* participants: the local one first, then the entries of remoteStreams.
participants(s) ==
  LET pinned == s.layoutCtrl.prefs.pinnedStreamKeys
      levels == s.activeSpeaker.audioLevels
      locals == IF s.localStream = NONE THEN <<>>
                ELSE <<[streamKey |-> "local", userId |-> "local",
                        displayName |-> s.layoutCtrl.localDisplayName,
                        stream |-> {VideoTrack, AudioTrack}, isMuted |-> s.isMuted,
                        isLocal |-> TRUE, isScreenShare |-> FALSE,
                        isPinned |-> indexOf(pinned, "local") >= 1, audioLevel |-> 0]>>
      remote(i) ==
        LET streamKey == s.remoteStreams[i][1]
            entry == s.remoteStreams[i][2]
            screen == isScreen(streamKey, entry)
        IN [streamKey |-> streamKey, userId |-> entry.userId,
            displayName |-> IF screen THEN getDisplayName(entry.userId) + 1
                            ELSE getDisplayName(entry.userId),
            stream |-> entry.stream, isMuted |-> FALSE, isLocal |-> FALSE,
            isScreenShare |-> screen, isPinned |-> indexOf(pinned, streamKey) >= 1,
            audioLevel |-> IF MapHas(levels, streamKey) THEN MapGet(levels, streamKey) ELSE 0]
  IN locals \o [i \in DOMAIN s.remoteStreams |-> remote(i)]

hasScreenShare(s) == \E i \in DOMAIN participants(s) : participants(s)[i].isScreenShare

pinnedParticipants(s) == SelectSeq(participants(s), LAMBDA p : p.isPinned)

filterHidden(s, list) ==
  IF ~s.layoutCtrl.prefs.hideNonVideo THEN list
  ELSE SelectSeq(list, LAMBDA p : IF p.isPinned \/ p.isLocal THEN TRUE
                                  ELSE hasLiveVideoTrack(p.stream))

\* The comparator of sortParticipants: negative when a comes first.
compare(s, a, b) ==
  LET aActive == a.streamKey = s.activeSpeaker.activeSpeakerKey
      bActive == b.streamKey = s.activeSpeaker.activeSpeakerKey
  IN IF a.isPinned # b.isPinned THEN (IF a.isPinned THEN -1 ELSE 1)
     ELSE IF aActive # bActive THEN (IF aActive THEN -1 ELSE 1)
     ELSE localeCompare(a.displayName, b.displayName)

\* Array.prototype.sort is stable: p goes before the first entry it precedes.
RECURSIVE sorted(_, _, _)
sorted(s, done, rest) ==
  IF rest = <<>> THEN done
  ELSE LET p == Head(rest)
           later == {i \in DOMAIN done : compare(s, p, done[i]) < 0}
           at == IF later = {} THEN Len(done) + 1
                 ELSE CHOOSE i \in later : \A j \in later : i <= j
       IN sorted(s, SubSeq(done, 1, at - 1) \o <<p>> \o SubSeq(done, at, Len(done)),
                 Tail(rest))

\* Mutant: the participants in the order of the Map.
sortParticipantsUnsorted(s, list) == list

sortParticipants(s, list) == sorted(s, <<>>, list)

\* slice(0, n)
slice(list, n) == SubSeq(list, 1, IF n < Len(list) THEN n ELSE Len(list))
streamKeys(list) == {list[i].streamKey : i \in DOMAIN list}

layout(s) ==
  LET mode == s.layoutCtrl.prefs.mode
      all == filterHidden(s, participants(s))
      sortedAll == sortParticipants(s, all)
      selfFloating == s.layoutCtrl.prefs.selfViewMode = "floating-uncropped"
      effectiveMode ==
        IF mode = "auto"
        THEN IF hasScreenShare(s) THEN "sidebar"
             ELSE IF Len(pinnedParticipants(s)) > 0 THEN "spotlight"
             ELSE IF Len(sortedAll) <= 2 THEN "spotlight"
             ELSE "tiled"
        ELSE mode
      pinned == SelectSeq(sortedAll, LAMBDA p : p.isPinned)
      nonLocal == SelectSeq(sortedAll, LAMBDA p : ~p.isLocal)
      screenShares == SelectSeq(sortedAll, LAMBDA p : p.isScreenShare)
      speaker == SelectSeq(sortedAll,
                           LAMBDA p : p.streamKey = s.activeSpeaker.activeSpeakerKey)
      primary ==
        CASE effectiveMode = "tiled" ->
               slice(IF selfFloating THEN nonLocal ELSE sortedAll,
                     s.layoutCtrl.prefs.tiledMaxTiles)
          [] effectiveMode = "spotlight" ->
               IF Len(pinned) > 0 THEN pinned
               ELSE IF s.activeSpeaker.activeSpeakerKey # NULL
               THEN (IF speaker # <<>> THEN <<speaker[1]>> ELSE slice(sortedAll, 1))
               ELSE IF Len(nonLocal) > 0 THEN <<nonLocal[1]>> ELSE slice(sortedAll, 1)
          [] OTHER ->
               IF Len(screenShares) > 0 THEN screenShares
               ELSE IF Len(pinned) > 0 THEN pinned ELSE slice(sortedAll, 1)
      rest == SelectSeq(sortedAll, LAMBDA p : p.streamKey \notin streamKeys(primary))
      secondary ==
        IF effectiveMode = "tiled" THEN <<>>
        ELSE IF selfFloating THEN SelectSeq(rest, LAMBDA p : ~p.isLocal) ELSE rest
  IN [effectiveMode |-> effectiveMode, primary |-> primary, secondary |-> secondary,
      selfViewFloating |-> selfFloating]

setMode(s, mode) == savePrefs([s EXCEPT !.layoutCtrl.prefs.mode = mode])

setMaxTiles(s, n) ==
  LET least == IF 49 < n THEN 49 ELSE n
  IN savePrefs([s EXCEPT !.layoutCtrl.prefs.tiledMaxTiles = IF 4 > least THEN 4 ELSE least])

setSelfViewMode(s, mode) == savePrefs([s EXCEPT !.layoutCtrl.prefs.selfViewMode = mode])

setHideNonVideo(s, v) == savePrefs([s EXCEPT !.layoutCtrl.prefs.hideNonVideo = v])

\* The rooms the layout is resolved for: the first n of four users, those from
\* the a-th on without a camera, with or without a screen share, which is
\* stored under a ':screen' key or marked by its source.
LayoutUsers == <<"u1", "u2", "u3", "u4">>
Cameras(n, a) ==
  [i \in 1..n |-> <<LayoutUsers[i],
                    [userId |-> LayoutUsers[i],
                     stream |-> IF i < a THEN {VideoTrack, AudioTrack} ELSE {AudioTrack},
                     source |-> "camera"]>>]
Rooms ==
  {Cameras(n, a) : n \in 0..4, a \in {1, 3, 5}}
  \cup {Append(Cameras(n, a), <<"u1:screen", [userId |-> "u1", stream |-> {VideoTrack},
                                               source |-> "camera"]>>) :
          n \in 1..4, a \in {3, 5}}
  \cup {Append(Cameras(n, 5), <<"u4", [userId |-> "u4", stream |-> {VideoTrack},
                                       source |-> "screen"]>>) : n \in {1, 3}}

\* The session comes to a room: the local stream is there or not, and the
\* user's name sorts before or after the names of the others.
RoomChanges ==
  \E room \in Rooms, local \in {NONE, 1}, name \in {5, 95} :
    /\ layoutCtrl.calls = 0
    /\ Becomes([Cur EXCEPT !.remoteStreams = room, !.localStream = local,
                           !.layoutCtrl.localDisplayName = name])

\* The active speaker changes: a participant of the room, one that has left, none.
SpeakerChanges ==
  \E key \in {NULL, "u1", "u2", "u9"} :
    /\ layoutCtrl.calls < MaxLayoutCalls
    /\ Becomes([Cur EXCEPT !.activeSpeaker.activeSpeakerKey = key,
                           !.layoutCtrl.calls = @ + 1])

SetMode ==
  \E mode \in {"auto", "tiled", "spotlight", "sidebar"} :
    /\ layoutCtrl.calls < MaxLayoutCalls
    /\ Becomes(setMode([Cur EXCEPT !.layoutCtrl.calls = @ + 1], mode))

SetMaxTiles ==
  \E n \in {3, 4, 50} :
    /\ layoutCtrl.calls < MaxLayoutCalls
    /\ Becomes(setMaxTiles([Cur EXCEPT !.layoutCtrl.calls = @ + 1], n))

SetSelfViewMode ==
  \E mode \in {"in-grid-cropped", "in-grid-uncropped", "floating-uncropped"} :
    /\ layoutCtrl.calls < MaxLayoutCalls
    /\ Becomes(setSelfViewMode([Cur EXCEPT !.layoutCtrl.calls = @ + 1], mode))

SetHideNonVideo ==
  \E v \in BOOLEAN :
    /\ layoutCtrl.calls < MaxLayoutCalls
    /\ Becomes(setHideNonVideo([Cur EXCEPT !.layoutCtrl.calls = @ + 1], v))

\* The user clicks the pin of a tile of the room.
PinTile ==
  \E streamKey \in streamKeys(participants(Cur)) :
    /\ layoutCtrl.calls < MaxLayoutCalls
    /\ Becomes(togglePin([Cur EXCEPT !.layoutCtrl.calls = @ + 1], streamKey))

NextLayout ==
  \/ RoomChanges
  \/ SpeakerChanges
  \/ SetMode
  \/ SetMaxTiles
  \/ SetSelfViewMode
  \/ SetHideNonVideo
  \/ PinTile

SpecLayout == Init /\ [][NextLayout]_vars

\* The session and its screen share, with a server that answers every request
\* within the 10 s of its wait.
InitProduce == Constructed /\ budget = MaxProduceEvents

NextProduce ==
  \/ JoinRoom
  \/ LeaveRoom
  \/ Receive
  \/ DeviceLoaded
  \/ StartScreenShare
  \/ GetDisplayMediaReturns
  \/ ProduceEvent

SpecProduce == InitProduce /\ [][NextProduce]_vars

Next ==
  \/ JoinRoom
  \/ LeaveRoom
  \/ Receive
  \/ ReceiveNewProducer
  \/ ReceivePeerLeft
  \/ ReceiveProducerClosed
  \/ Timeout
  \/ DeviceLoaded
  \/ ConsumeReturns

Spec == Init /\ [][Next]_vars

\* The session with its local media: the calls that produce as well.
NextMedia ==
  \/ JoinRoom
  \/ LeaveRoom
  \/ Receive
  \/ ReceiveNewProducer
  \/ Timeout
  \/ DeviceLoaded
  \/ ConsumeReturns
  \/ ProduceLocalMedia
  \/ GetUserMediaReturns
  \/ StartScreenShare
  \/ GetDisplayMediaReturns
  \/ ProduceEvent

SpecMedia == Init /\ [][NextMedia]_vars

\* The microphone and camera buttons.
ToggleMute ==
  /\ Becomes(runMicrotasks(toggleMute(Cur)))

ToggleVideo ==
  /\ Becomes(runMicrotasks(toggleVideo(Cur)))

\* The session with its local media and the two buttons.
NextControls ==
  \/ JoinRoom
  \/ LeaveRoom
  \/ Receive
  \/ DeviceLoaded
  \/ ProduceLocalMedia
  \/ GetUserMediaReturns
  \/ ProduceEvent
  \/ ToggleMute
  \/ ToggleVideo

SpecControls == Init /\ [][NextControls]_vars

stopScreenShare(s) ==
  LET s1 == IF MapHas(s.producers, "screen")
            THEN LET s2 == [s EXCEPT !.closed = @ \cup {Handle("producer",
                                                                MapGet(s.producers, "screen"))},
                                     !.producers = MapDelete(@, "screen")]
                 IN IF s.conferenceId # NULL /\ s.screenProducerId # NONE
                    THEN send(s2, Req("media:producer_close", s.conferenceId,
                                      s.screenProducerId))
                    ELSE s2
            ELSE s
  IN [s1 EXCEPT !.screenProducerId = NONE, !.isScreenSharing = FALSE]

\* The screen-share button while sharing.
StopScreenShare ==
  /\ Becomes(runMicrotasks(stopScreenShare(Cur)))

\* The user ends a capture through the browser: the track that invocation p
\* produced fires 'ended' once, unless closing its producer has stopped it.
ScreenTrackEnded ==
  \E p \in DOMAIN procs :
    /\ procs[p].fn = "startScreenShare"
    /\ Handle("track", p) \notin closed
    /\ \E o \in DOMAIN ops : /\ ops[o].proc = p /\ ops[o].state = "done"
                             /\ Handle("producer", ops[o].id) \notin closed
    /\ Becomes(runMicrotasks(stopScreenShare([Cur EXCEPT !.closed = @ \cup {Handle("track", p)}])))

\* The session with its local media and the screen share.
NextScreen ==
  \/ JoinRoom
  \/ LeaveRoom
  \/ Receive
  \/ DeviceLoaded
  \/ ProduceLocalMedia
  \/ GetUserMediaReturns
  \/ StartScreenShare
  \/ GetDisplayMediaReturns
  \/ ProduceEvent
  \/ StopScreenShare
  \/ ScreenTrackEnded

SpecScreen == Init /\ [][NextScreen]_vars

\* A conference of seven: the local stream and the cameras of six peers.
RoomUsers == <<"u1", "u2", "u3", "u4", "u5", "u6">>
FullRoom ==
  [i \in DOMAIN RoomUsers |-> <<RoomUsers[i],
                                [userId |-> RoomUsers[i],
                                 stream |-> {VideoTrack, AudioTrack},
                                 source |-> "camera"]>>]

\* The session comes to the full room.
RoomFills ==
  /\ remoteStreams = <<>> /\ localStream = NONE
  /\ Becomes([Cur EXCEPT !.remoteStreams = FullRoom, !.localStream = 1])

\* media:peer_left of a peer of the full room: its entry leaves remoteStreams.
PeerLeaves ==
  \E i \in DOMAIN remoteStreams :
    /\ remoteStreams = FullRoom
    /\ Becomes([Cur EXCEPT !.remoteStreams = MapDelete(@, remoteStreams[i][1])])

\* The pin button of the tile of a participant.
PinParticipant ==
  \E streamKey \in streamKeys(participants(Cur)) :
    /\ streamKey # NULL
    /\ Becomes(togglePin(Cur, streamKey))

\* The pins in a room whose peers leave.
NextRoom ==
  \/ RoomFills
  \/ PeerLeaves
  \/ PinParticipant

SpecRoom == Init /\ [][NextRoom]_vars

\* The session of the version without the chain.
NextUnserialized ==
  \/ JoinRoomUnserialized
  \/ Receive
  \/ ReceiveNewProducer
  \/ Timeout
  \/ DeviceLoadedUnserialized
  \/ ConsumeReturns

SpecUnserialized == Init /\ [][NextUnserialized]_vars

\* ------------------------------------------------------------ the claims
InFlight == {"awaitResult", "awaitConsume"}
ConsumeRequests == {i \in DOMAIN sent : sent[i].type = "media:consume"}

\* C1: of the announcements handleNewProducer takes in one session (between
\* two calls of leaveRoom), one is started (its media:consume sent) only when
\* the consumeProducer call of every earlier one has completed; so at most one
\* of them awaits media:consumer_created at any instant.
C1_ConsumeSerialized ==
  /\ \A c1, c2 \in DOMAIN calls :
       (c1 < c2 /\ calls[c1].epoch = calls[c2].epoch /\ calls[c2].status # "queued")
         => calls[c1].status \in Settled
  /\ \A e \in 0..leaves :
       Cardinality({c \in DOMAIN calls :
                      calls[c].epoch = e /\ calls[c].status = "awaitResult"}) <= 1

\* A second announcement is held back while the first awaits its response.
C1_Witness ==
  \E c1, c2 \in DOMAIN calls :
    /\ c1 < c2 /\ calls[c1].epoch = calls[c2].epoch
    /\ calls[c1].status = "awaitResult" /\ calls[c2].status = "queued"

\* C2: with the chain, and without any leaveRoom, every consumer attached to
\* the stream of a user was built from the response to the request for a
\* producer of that user (no result is delivered to another call).
C2_NoCrossDelivery ==
  leaves = 0 =>
    \A i \in DOMAIN remoteStreams :
      \A consumer \in remoteStreams[i][2] : Owner(consumer.producerId) = remoteStreams[i][1]

\* Call b began while call a was awaiting media:consumer_created.
Overlapped(a, b) == a \in calls[b].overlaps
\* The waiter of call c is the one registered for media:consumer_created.
Holds(c) ==
  /\ MapHas(pendingWaiters, T_CONSUMER)
  /\ MapGet(pendingWaiters, T_CONSUMER) = WaiterOf("cons", c)
\* a is not registered once b has begun, and a is never given a response: it
\* stays awaiting until its timer rejects it.
FirstCallStarved ==
  [][\A a, b \in DOMAIN calls :
       (Overlapped(a, b) /\ calls[a].status = "awaitResult") =>
         /\ calls'[a].status \in {"awaitResult", "failed"}
         /\ calls'[a].result = NoResult]_vars
FirstCallOverwritten ==
  \A a, b \in DOMAIN calls : Overlapped(a, b) => ~Holds(a)

Registered(w) == \E i \in DOMAIN pendingWaiters : pendingWaiters[i][2] = w
Pending(w) == \E i \in DOMAIN timers : timers[i].w = w
Fulfilled(w) ==
  CASE w.kind = "caps" -> joins[w.id].capsMsg > 0
    [] w.kind = "tr" -> joins[w.id].transportMsg > 0
    [] w.kind = "cons" -> calls[w.id].result # NoResult
    [] w.kind = "prod" -> ops[w.id].state = "done"
Rejected(w) ==
  CASE w.kind = "caps" -> joins[w.id].capsMsg = REJECTED
    [] w.kind = "tr" -> joins[w.id].transportMsg = REJECTED
    [] w.kind = "cons" -> calls[w.id].status = "failed" /\ calls[w.id].result = NoResult
    [] w.kind = "prod" -> ops[w.id].state = "failed"
Waiters == {timers[i].w : i \in DOMAIN timers}
OneWaiterPerType ==
  \A i, k \in DOMAIN pendingWaiters :
    pendingWaiters[i][1] = pendingWaiters[k][1] => i = k
C4_OverwrittenWaiterTimesOut ==
  /\ []OneWaiterPerType
  /\ [][\A w \in Waiters :
          ~Registered(w) =>
            \/ (Pending(w) /\ ~Registered(w) /\ ~Fulfilled(w))'
            \/ (~Pending(w) /\ Rejected(w))']_vars

\* A waiter has been replaced by a later one of its type while pending.
C4_Witness ==
  \E w \in Waiters :
    /\ ~Registered(w)
    /\ \E i \in DOMAIN pendingWaiters :
         /\ pendingWaiters[i][2].kind = w.kind
         /\ pendingWaiters[i][2].id > w.id

\* C5: when a joinRoom reaches its end, the announcements its buffering handler
\* took have each exactly one consume call, the calls are in arrival order, and
\* every announcement that arrived after the real handler was installed has its
\* call after them; an announcement is never both buffered and handled live.
CallsOf(p) == {c \in DOMAIN calls : calls[c].producer_id = p}
BlockAt(j, k) ==
  \A i \in DOMAIN joins[j].pendingProducers :
    /\ k + i \in DOMAIN calls
    /\ calls[k + i].producer_id = joins[j].pendingProducers[i].producer_id
C6_ConsumeOnlyWithTransports ==
  [][Cardinality(ConsumeRequests)' > Cardinality(ConsumeRequests)
       => (recvTransport # NONE /\ device # NONE)']_vars

\* An announcement buffered during Joining was consumed once the transports
\* existed, and a queued one was given up after leaveRoom removed them.
C6_Witness ==
  /\ \E j \in DOMAIN joins :
       /\ joins[j].pc = "done" /\ joins[j].pendingProducers # <<>>
       /\ \E i \in ConsumeRequests :
            sent[i].producer_id = joins[j].pendingProducers[1].producer_id
  /\ \E c \in DOMAIN calls : calls[c].status = "skipped"

\* C7: from the media:join of a joinRoom until leaveRoom the three persistent
\* handlers are registered, and no pushed event is dropped for want of one.
PushTypes == {T_NEW_PRODUCER, T_PEER_LEFT, T_PRODUCER_CLOSED}
C7_HandlersBeforeJoin ==
  /\ conferenceId # NULL => \A type \in PushTypes : MapHas(mediaHandlers, type)
  /\ \A type \in PushTypes : <<type, TRUE>> \notin dropped

\* An announcement arrived while joinRoom awaited its responses and was taken.
C7_Witness ==
  \E j \in DOMAIN joins :
    /\ joins[j].pc \in {"awaitCaps", "awaitTransport"}
    /\ joins[j].pendingProducers # <<>>
    /\ conferenceId # NULL

\* The state of s0 is one that leaveRoom leaves behind as s.
LeftFrom(s0, s) ==
  /\ \A i \in DOMAIN s0.producers : Handle("producer", s0.producers[i][2]) \in s.closed
  /\ \A i \in DOMAIN s0.consumers : Handle("consumer", s0.consumers[i][1]) \in s.closed
  /\ s0.sendTransport # NONE => Handle("send", s0.sendTransport) \in s.closed
  /\ s0.recvTransport # NONE => Handle("recv", s0.recvTransport) \in s.closed
  /\ s.sendTransport = NONE /\ s.recvTransport = NONE
  /\ s.device = NONE /\ s.conferenceId = NULL
  /\ s.producers = <<>> /\ s.consumers = <<>> /\ s.remoteStreams = <<>>
  /\ s0.localStream # NONE => Handle("stream", s0.localStream) \in s.closed
  /\ s.localStream = NONE
  /\ \A type \in PushTypes : ~MapHas(s.mediaHandlers, type)
  /\ s.sent = IF s0.conferenceId # NULL
              THEN send(s0, Req("media:leave", s0.conferenceId, NONE)).sent
              ELSE s0.sent

\* C8: every call of leaveRoom, whatever the state it is made in, closes the
\* producers and consumers that were in the maps and both transports, nulls the
\* transports, the device and the conference id, empties producers, consumers
\* and remoteStreams, releases the local stream, deregisters the three
\* persistent handlers, and sends media:leave exactly when a conference id was set.
C8_LeaveRoomTearsDown == [][leaves' = leaves + 1 => LeftFrom(Cur, Cur')]_vars

\* leaveRoom has acted on a session that was sharing the screen: the screen
\* producer is closed and the session is idle.
C8_Witness ==
  /\ leaves > 0
  /\ conferenceId = NULL
  /\ ~isScreenSharing
  /\ \E o \in DOMAIN ops :
       /\ ops[o].kind = "screen" /\ ops[o].state = "done"
       /\ Handle("producer", ops[o].id) \in closed
       /\ Handle("send", ops[o].transport) \in closed

\* What a second call could change: the session, the registrations, the closed
\* handles and the messages sent.
SessionOf(s) ==
  <<s.device, s.sendTransport, s.recvTransport, s.producers, s.consumers,
    s.remoteStreams, s.localStream, s.isMuted, s.isVideoOn, s.isScreenSharing,
    s.conferenceId, s.screenProducerId, s.consumeChain, s.pendingWaiters,
    s.mediaHandlers, s.timers, s.joins, s.calls, s.procs, s.ops, s.closed, s.sent,
    s.inflight>>

\* C9: from every state, a partially joined one included, a second leaveRoom
\* right after a first changes nothing of the session and sends nothing.
C9_LeaveRoomIdempotent ==
  SessionOf(leaveRoom(leaveRoom(Cur))) = SessionOf(leaveRoom(Cur))

\* leaveRoom has acted while a join was still awaiting a response: the join is
\* still pending and the session is idle.
C9_Witness ==
  /\ leaves > 0
  /\ conferenceId = NULL /\ device = NONE
  /\ \E j \in DOMAIN joins :
       /\ joins[j].pc \in {"awaitCaps", "awaitTransport", "loading"}
       /\ \E i \in DOMAIN sent :
            sent[i].type = "media:leave" /\ sent[i].conference_id = joins[j].confId
  /\ leaveRoom(Cur).sent = sent

\* C10: a call whose response arrived after a leaveRoom that followed its
\* request never attaches a consumer.
C10_LateResponseIsNoOp ==
  \A c \in DOMAIN calls :
    (calls[c].result # NoResult /\ calls[c].startedAt < calls[c].resultAt)
      => calls[c].status # "done"

\* leaveRoom was called while join j awaited media:router_capabilities or
\* media:transport_created: the join went on past its awaits in a later epoch
\* than the one it began in.
Interrupted(j) ==
  /\ joins[j].pc \in {"loading", "done"}
  /\ joins[j].loadingAt > joins[j].epoch

\* C11: a join that leaveRoom interrupted at one of its two awaits stores no
\* device and no transport afterwards and does not reach the registration of
\* the real media:new_producer handler at its end.
C11_InterruptedJoinStaysDown ==
  \A j \in DOMAIN joins :
    Interrupted(j) =>
      /\ device # j /\ sendTransport # j /\ recvTransport # j
      /\ joins[j].pc # "done"

\* C12: whenever the send or the receive transport is set, the device is.
C12_TransportsImplyDevice ==
  (sendTransport # NONE \/ recvTransport # NONE) => device # NONE

\* Transports and device are stored again after a leaveRoom.
C12_Witness ==
  /\ leaves > 0
  /\ sendTransport # NONE /\ recvTransport # NONE /\ device # NONE

\* The media:join requests sent so far.
JoinRequests == SelectSeq(sent, LAMBDA r : r.type = "media:join")
\* Message id n was received as the answer to a media:join.
ReceivedJoinAnswer(type, n) ==
  /\ n \in DOMAIN sent /\ sent[n].type = "media:join"
  /\ Msg(type, n, NONE, NULL) \notin inflight

\* C13: every joinRoom(c) sends one media:join carrying c; it calls dev.load
\* only when both responses are in, with the capabilities of the
\* media:router_capabilities it received; no device or transport of the join
\* exists before the load has returned, and the transports are then created
\* with the ids of the media:transport_created it received.
C13_JoinLoadsThenCreates ==
  /\ Len(JoinRequests) = Len(joins)
  /\ \A j \in DOMAIN joins :
       /\ JoinRequests[j].conference_id = joins[j].confId
       /\ joins[j].pc \in {"loading", "done"} =>
            /\ ReceivedJoinAnswer(T_CAPS, joins[j].capsMsg)
            /\ ReceivedJoinAnswer(T_TRANSPORT, joins[j].transportMsg)
            /\ joins[j].loadedWith = joins[j].capsMsg
       /\ joins[j].pc # "done" =>
            /\ device # j /\ sendTransport # j /\ recvTransport # j
            /\ joins[j].createdWith = NONE
       /\ joins[j].pc = "done" => joins[j].createdWith = joins[j].transportMsg

\* A join has reached its end: the device is loaded and both transports exist.
C13_Witness ==
  \E j \in DOMAIN joins :
    /\ joins[j].pc = "done"
    /\ device = j /\ sendTransport = j /\ recvTransport = j
    /\ joins[j].loadedWith = joins[j].capsMsg /\ joins[j].capsMsg > 0
    /\ joins[j].createdWith = joins[j].transportMsg /\ joins[j].transportMsg > 0

\* The payload waiter w was resolved with is that of message m.
ResolvedWith(w, m) ==
  CASE w.kind = "caps" -> joins[w.id].capsMsg = m.id
    [] w.kind = "tr" -> joins[w.id].transportMsg = m.id
    [] w.kind = "cons" -> calls[w.id].result = m
    [] w.kind = "prod" -> ops[w.id].id = m.id

\* C14: a waitForMessage call whose entry was never replaced stays registered
\* while it is pending; the first message of its type received meanwhile
\* resolves it with that message's payload and removes it, and otherwise it
\* ends by the rejection of its timer; it never ends both ways.
C14_WaiterEndsOneWay ==
  /\ [](\A i \in DOMAIN timers : ~timers[i].over => Registered(timers[i].w))
  /\ [][\A t \in {timers[i] : i \in DOMAIN timers} :
          ~t.over =>
            /\ \A m \in inflight :
                 (m.type = t.type /\ m \notin inflight')
                   => (~Pending(t.w) /\ ~Registered(t.w) /\ ResolvedWith(t.w, m))'
            /\ (~Pending(t.w))' => (Fulfilled(t.w) # Rejected(t.w))']_vars

\* The invocation of handler h with message m, as `invoked` records it.
Invocation(h, m) == [type |-> m.type, registered |-> h.join, received |-> m.id]

\* C15: a received message goes to exactly one recipient: to the pending
\* waiter of its type if there is one, which is resolved with it and removed
\* while no handler is invoked; otherwise to the persistent handler of its
\* type, which stays registered; otherwise to nobody, and then waiters,
\* handlers and callers are as they were.
C15_DispatchToOneRecipient ==
  [][Len(received') = Len(received) + 1 =>
       \A m \in {received'[Len(received')]} :
         IF MapHas(pendingWaiters, m.type)
         THEN \A w \in {MapGet(pendingWaiters, m.type)} :
                /\ pendingWaiters' = MapDelete(pendingWaiters, m.type)
                /\ clients' = [clients EXCEPT ![w.id].outcome = m.id]
                /\ invoked' = invoked /\ mediaHandlers' = mediaHandlers
         ELSE IF MapHas(mediaHandlers, m.type)
         THEN \A h \in {MapGet(mediaHandlers, m.type)} :
                /\ invoked' = invoked \cup {Invocation(h, m)}
                /\ mediaHandlers' = mediaHandlers
                /\ pendingWaiters' = pendingWaiters /\ clients' = clients
         ELSE /\ invoked' = invoked /\ clients' = clients
              /\ mediaHandlers' = mediaHandlers /\ pendingWaiters' = pendingWaiters]_vars

\* One message was received while a waiter and a handler of its type were both
\* registered: the waiter has it, the handler is still registered and was not
\* invoked.
C15_Witness ==
  /\ Len(received) = 1
  /\ \E n \in DOMAIN clients :
       /\ clients[n].type = received[1].type
       /\ clients[n].outcome = received[1].id
       /\ MapHas(mediaHandlers, clients[n].type)
       /\ ~MapHas(pendingWaiters, clients[n].type)
  /\ invoked = {}

\* C16: a waiter or a handler registered while socket k was the connection
\* is only ever given messages received on socket k: after the close of k and
\* the reconnect, no message of the new socket resolves or invokes it.
C16_RegistrationsInvalidated ==
  /\ \A n \in DOMAIN clients :
       (clients[n].registered # NONE /\ clients[n].outcome > 0)
         => clients[n].outcome = clients[n].registered
  /\ \A x \in invoked : x.registered # NONE => x.received = x.registered

\* C17: at most one reconnect timer is pending; the close of a socket leaves
\* exactly one pending, its own, carrying the token the socket was created
\* with; and when that timer fires, connect is called once with that token: a
\* socket with the token is created unless the current one is connecting or open.
C17_OneReconnectPerClose ==
  /\ [](Cardinality(timeouts) <= 1)
  /\ [][/\ \A k \in DOMAIN sockets :
            (sockets[k].readyState # "CLOSED" /\ sockets'[k].readyState = "CLOSED")
              => timeouts' = {[id |-> k, token |-> sockets[k].token]}
        /\ \A x \in timeouts :
            (timeouts' = timeouts \ {x} /\ reconnectTimeout' = reconnectTimeout)
              => sockets' = IF Live(Cur) # NONE THEN sockets
                            ELSE Append(sockets, [token |-> x.token,
                                                  readyState |-> "CONNECTING"])]_vars

\* After one connect() and one unexpected close the timer has fired and made
\* the second socket, with the token of the first.
C17_Witness ==
  /\ channelCalls = 2
  /\ Len(sockets) = 2
  /\ sockets[1].readyState = "CLOSED"
  /\ sockets[2].token = sockets[1].token
  /\ timeouts = {} /\ socket = 2

\* The 'produce' handlers that await media:produce_result.
ProduceWaits == {o \in DOMAIN ops : ops[o].state = "awaitResult"}

\* C18: at no instant do two produce requests await media:produce_result.
C18_OneProduceOutstanding == Cardinality(ProduceWaits) <= 1

\* The key the layout recognises a screen share of user u by.
ScreenKey(u) == u \o ":screen"

\* C19: a consumed screen-share track is stored under the ':screen' key of its
\* user, and no entry of remoteStreams holds it together with a camera track.
C19_ScreenShareKeptApart ==
  \A i \in DOMAIN remoteStreams :
    \A consumer \in remoteStreams[i][2] :
      Source(consumer.producerId) = "screen" =>
        /\ remoteStreams[i][1] = ScreenKey(Owner(consumer.producerId))
        /\ \A other \in remoteStreams[i][2] : Source(other.producerId) = "screen"

\* The time since the last poll in which a stream was above the threshold.
Silence == audio.now - audio.heardAt

\* C20: with polls every 200 ms, at every poll in which no stream is above the
\* threshold the active speaker is still a stream that was above it in the last
\* loud poll while the silence is at most 1.5 s (so at 1.0 s too), and there is
\* no active speaker at the poll 1.6 s after the last loud poll.
C20_HoldTime ==
  [][(/\ audio'.now = audio.now + POLL_MS
      /\ audio'.heardAt = audio.heardAt
      /\ audio.heard # {})
     => /\ Silence' <= HOLD_MS => activeSpeaker'.activeSpeakerKey \in audio.heard
        /\ Silence' = 1600 => activeSpeaker'.activeSpeakerKey = NULL]_vars

\* A stream was heard in one poll, and the poll 1.6 s later, after silence, is the
\* first that reports no active speaker.
C20_Witness ==
  /\ Cardinality(audio.heard) = 1
  /\ Silence = 1600
  /\ activeSpeaker.pollInterval # NONE
  /\ activeSpeaker.activeSpeakerKey = NULL
  /\ activeSpeaker.lastSpeakerTime = audio.heardAt

\* The level the last poll measured for a key.
LevelOf(key) == MapGet(activeSpeaker.audioLevels, key)

\* C21: a poll with a stream above the threshold makes the loudest of them the
\* active speaker at once, whoever was held; a poll without one leaves the
\* active speaker as it was unless the hold window has expired.
C21_LoudestPreempts ==
  [][audio'.now = audio.now + POLL_MS
     => IF audio'.heardAt = audio'.now
        THEN /\ activeSpeaker'.activeSpeakerKey \in audio'.heard
             /\ \A key \in audio'.heard :
                  LevelOf(key)' <= LevelOf(activeSpeaker.activeSpeakerKey)'
        ELSE \/ activeSpeaker'.activeSpeakerKey = activeSpeaker.activeSpeakerKey
             \/ Silence' > HOLD_MS]_vars

\* In a poll after the first, two streams were above the threshold and the
\* louder of them is the active speaker.
C21_Witness ==
  /\ audio.heardAt = audio.now
  /\ Cardinality(audio.heard) = 2
  /\ \E key \in audio.heard : LevelOf(key) < LevelOf(activeSpeaker.activeSpeakerKey)
  /\ activeSpeaker.lastSpeakerTime = audio.now
  /\ audio.now > POLL_MS

\* The keys of the streams the layout shows as screen shares.
ScreenShares ==
  {remoteStreams[i][1] : i \in {j \in DOMAIN remoteStreams :
                                  isScreen(remoteStreams[j][1], remoteStreams[j][2])}}

C23_StopReleasesAll ==
  /\ Cardinality(audio.intervals) <= 1
  /\ audio.view = "stopped" =>
       /\ audio.intervals = {} /\ activeSpeaker.pollInterval = NONE
       /\ activeSpeaker.analysers = <<>>
       /\ audio.contexts = {} /\ activeSpeaker.audioContext = NONE
       /\ activeSpeaker.audioLevels = <<>>
       /\ activeSpeaker.activeSpeakerKey = NULL

\* stop() has returned after a poll in which an analysed stream was heard.
C23_Witness ==
  /\ audio.view = "stopped"
  /\ audio.heard # {}
  /\ audio.changes > 0

\* The pinned list as a set.
Pinned == {layoutCtrl.prefs.pinnedStreamKeys[i] : i \in DOMAIN layoutCtrl.prefs.pinnedStreamKeys}

\* C24: the pinned list never holds a key twice nor more than 6 keys; togglePin
\* of an unpinned key while 6 are pinned returns false and changes nothing, and
\* togglePin of a pinned key returns true and removes that key alone.
C24_PinCap ==
  /\ [](/\ Len(layoutCtrl.prefs.pinnedStreamKeys) <= 6
        /\ Cardinality(Pinned) = Len(layoutCtrl.prefs.pinnedStreamKeys))
  /\ [][\A streamKey \in {layoutCtrl'.returned.streamKey} \ {NULL} :
          /\ (streamKey \notin Pinned /\ Cardinality(Pinned) = 6)
               => /\ layoutCtrl'.returned.value = FALSE
                  /\ layoutCtrl'.prefs = layoutCtrl.prefs
          /\ streamKey \in Pinned
               => /\ layoutCtrl'.returned.value = TRUE
                  /\ Pinned' = Pinned \ {streamKey}
                  /\ Len(layoutCtrl'.prefs.pinnedStreamKeys) =
                       Len(layoutCtrl.prefs.pinnedStreamKeys) - 1]_vars

\* A seventh key has just been refused.
C24_Witness ==
  /\ Cardinality(Pinned) = 6
  /\ layoutCtrl.returned.streamKey \notin Pinned \cup {NULL}
  /\ layoutCtrl.returned.value = FALSE

\* The participants of the room, and the layout resolved for them.
Participants == participants(Cur)
Layout == layout(Cur)
Some(list, Test(_)) == \E i \in DOMAIN list : Test(list[i])

\* C25: the effective mode is the explicit mode unless that is auto; in auto it
\* is sidebar with a screen share among the participants, else spotlight with a
\* pinned participant, else spotlight with at most 2 participants, else tiled.
C25_EffectiveMode ==
  Layout.effectiveMode =
    IF layoutCtrl.prefs.mode # "auto" THEN layoutCtrl.prefs.mode
    ELSE IF Some(Participants, LAMBDA p : p.isScreenShare) THEN "sidebar"
    ELSE IF Some(Participants, LAMBDA p : p.isPinned) THEN "spotlight"
    ELSE IF Len(Participants) <= 2 THEN "spotlight"
    ELSE "tiled"

\* The participants that are shown, in the order of the layout.
Shown == sortParticipants(Cur, filterHidden(Cur, Participants))
Without(list, others) == SelectSeq(list, LAMBDA p : p.streamKey \notin streamKeys(others))

\* The primary region the spotlight rule gives.
SpotlightPrimary ==
  LET pinned == SelectSeq(Shown, LAMBDA p : p.isPinned)
      speaker == SelectSeq(Shown, LAMBDA p : p.streamKey = activeSpeaker.activeSpeakerKey)
      nonLocal == SelectSeq(Shown, LAMBDA p : ~p.isLocal)
  IN IF pinned # <<>> THEN pinned
     ELSE IF speaker # <<>> THEN speaker
     ELSE IF nonLocal # <<>> THEN <<nonLocal[1]>>
     ELSE slice(Shown, 1)

\* C26: in spotlight mode the primary region is the pinned participants, else
\* the active speaker when it is among the participants shown, else the first
\* participant that is not the local one, else the first participant; the
\* secondary region is the others, without the local one when self-view floats.
C26_Spotlight ==
  Layout.effectiveMode = "spotlight" =>
    /\ Layout.primary = SpotlightPrimary
    /\ Layout.secondary =
         IF layoutCtrl.prefs.selfViewMode = "floating-uncropped"
         THEN SelectSeq(Without(Shown, SpotlightPrimary), LAMBDA p : ~p.isLocal)
         ELSE Without(Shown, SpotlightPrimary)

\* The participants that go to the grid, and the order of the tiles: pinned
\* before unpinned, then the active speaker, then by display name.
Grid ==
  {p \in {Shown[i] : i \in DOMAIN Shown} :
     layoutCtrl.prefs.selfViewMode = "floating-uncropped" => ~p.isLocal}
Precedes(p, q) ==
  \/ p.isPinned /\ ~q.isPinned
  \/ /\ p.isPinned = q.isPinned
     /\ p.streamKey = activeSpeaker.activeSpeakerKey
     /\ q.streamKey # activeSpeaker.activeSpeakerKey
  \/ /\ p.isPinned = q.isPinned
     /\ (p.streamKey = activeSpeaker.activeSpeakerKey)
          = (q.streamKey = activeSpeaker.activeSpeakerKey)
     /\ p.displayName < q.displayName

\* C27: in tiled mode the primary region is the first tiledMaxTiles of the
\* sorted participants of the grid (without the local one when self-view
\* floats), in their order, and the secondary region is empty.
C27_Tiled ==
  Layout.effectiveMode = "tiled" =>
    LET primary == Layout.primary
        tiles == {primary[i] : i \in DOMAIN primary}
    IN /\ Layout.secondary = <<>>
       /\ Len(primary) <= layoutCtrl.prefs.tiledMaxTiles
       /\ Len(primary) = IF Cardinality(Grid) < layoutCtrl.prefs.tiledMaxTiles
                         THEN Cardinality(Grid) ELSE layoutCtrl.prefs.tiledMaxTiles
       /\ tiles \subseteq Grid /\ Cardinality(tiles) = Len(primary)
       /\ \A i, j \in DOMAIN primary : i < j => ~Precedes(primary[j], primary[i])
       /\ \A p \in tiles, q \in Grid \ tiles : ~Precedes(q, p)

\* The grid has more participants than tiles, and a pinned one comes first.
C27_Witness ==
  /\ Layout.effectiveMode = "tiled"
  /\ Cardinality(Grid) > layoutCtrl.prefs.tiledMaxTiles
  /\ Len(Layout.primary) = layoutCtrl.prefs.tiledMaxTiles
  /\ Layout.primary[1].isPinned /\ ~Layout.primary[2].isPinned

\* The media:consume requests sent for an announced producer.
ConsumeRequestsFor(producer_id) ==
  {i \in DOMAIN sent : sent[i].type = "media:consume" /\ sent[i].producer_id = producer_id}

\* C28: no announcement has a second media:consume sent for it, whatever became
\* of the first, and no consume waits behind one that has failed: a call of the
\* chain is queued only while the call before it is still in progress.
C28_FailedConsumeNotRetried ==
  /\ \A producer_id \in 1..announced : Cardinality(ConsumeRequestsFor(producer_id)) <= 1
  /\ \A c \in DOMAIN calls :
       calls[c].status = "queued" =>
         /\ calls[c].prev # NONE
         /\ calls[calls[c].prev].status \notin Settled

\* A consume has failed after its request was sent, and the consume of the
\* next announcement has sent its own.
C28_Witness ==
  \E c, d \in DOMAIN calls :
    /\ calls[d].prev = c
    /\ calls[c].status = "failed"
    /\ Cardinality(ConsumeRequestsFor(calls[c].producer_id)) = 1
    /\ calls[d].status = "awaitResult"
    /\ Cardinality(ConsumeRequestsFor(calls[d].producer_id)) = 1

\* The operations for which the send transport has emitted 'produce'.
ProduceEvents == {o \in DOMAIN ops : ops[o].state # "queued" /\
                                     (ops[o].requests > 0 \/ ops[o].called # <<>>)}

\* C29: for each 'produce' event one media:produce has been sent; no callback
\* of the engine is invoked while the handler waits, and once it has ended one
\* of them has been invoked once: the success callback with the id of the
\* media:produce_result received, or the error callback after the wait timed out.
C29_OneCallbackPerProduce ==
  \A o \in DOMAIN ops :
    /\ ops[o].state = "queued" => ops[o].requests = 0 /\ ops[o].called = <<>>
    /\ ops[o].state = "awaitResult" => ops[o].requests = 1 /\ ops[o].called = <<>>
    /\ o \in ProduceEvents /\ ops[o].state \in {"done", "failed"} =>
         /\ ops[o].requests = 1
         /\ Len(ops[o].called) = 1
         /\ IF ops[o].called[1].fn = "callback"
            THEN /\ ~ops[o].timedOut
                 /\ ops[o].called[1].id \in DOMAIN sent
                 /\ sent[ops[o].called[1].id].type = "media:produce"
                 /\ Msg(T_PRODUCE_RESULT, ops[o].called[1].id, NONE, NULL) \notin inflight
            ELSE ops[o].timedOut

\* One 'produce' event has ended with the success callback and another with
\* the error callback.
C29_Witness ==
  /\ \E o \in ProduceEvents : ops[o].called = <<[fn |-> "callback", id |-> ops[o].id]>>
  /\ \E o \in ProduceEvents : ops[o].called = <<[fn |-> "errback", id |-> NONE]>>

\* The production of a kind, and whether it is paused.
Production(kind) == MapGet(producers, kind)

\* C30: whenever an audio production exists it is paused exactly when isMuted
\* is true, and whenever a video production exists it is paused exactly when
\* isVideoOn is false; a toggle sends no signaling message.
C30_PausedFollowsToggles ==
  /\ [](/\ MapHas(producers, "audio") => (Production("audio") \in paused <=> isMuted)
        /\ MapHas(producers, "video") => (Production("video") \in paused <=> ~isVideoOn))
  /\ [][(isMuted' # isMuted \/ isVideoOn' # isVideoOn) /\ leaves' = leaves
          => sent' = sent]_vars

\* A step that stops the screen share: sharing ends, or the screen production
\* leaves producers, without a leaveRoom.
ScreenShareStops ==
  /\ leaves' = leaves
  /\ \/ isScreenSharing /\ ~isScreenSharing'
     \/ MapHas(producers, "screen") /\ ~MapHas(producers', "screen")

\* The production of kind k is in the same state before and after the step.
Untouched(k) ==
  MapHas(producers, k) =>
    /\ MapHas(producers', k) /\ MapGet(producers', k) = Production(k)
    /\ Handle("producer", Production(k)) \in closed' <=>
         Handle("producer", Production(k)) \in closed
    /\ Production(k) \in paused' <=> Production(k) \in paused

\* C31: a step that stops an active screen share closes the screen production
\* and removes it from producers, sets isScreenSharing to false, sends exactly
\* one media:producer_close with that production's id, and leaves the audio
\* and video productions as they were; stopScreenShare without a screen
\* production sends nothing.
C31_StopScreenShare ==
  /\ [][ScreenShareStops =>
          /\ MapHas(producers, "screen")
          /\ Handle("producer", Production("screen")) \in closed'
          /\ ~MapHas(producers', "screen")
          /\ ~isScreenSharing'
          /\ sent' = Append(sent, Req("media:producer_close", conferenceId,
                                      Production("screen")))
          /\ Untouched("audio") /\ Untouched("video")]_vars
  /\ [](~MapHas(producers, "screen") => stopScreenShare(Cur).sent = sent)

\* The store holds no socket: no connect() has been called yet, or none since
\* the last disconnect().
Disconnected == socket = NONE

\* C32: after disconnect() and until connect() is called again, the close event
\* of the socket that disconnect() closed schedules no reconnect, and no
\* connection attempt is made other than by a call of connect().
C32_NoReconnectAfterDisconnect ==
  [][Disconnected =>
       /\ timeouts' \subseteq timeouts
       /\ Len(sockets') > Len(sockets) => channelCalls' = channelCalls + 1]_vars

\* The timer of the oldest wait fires, and the entry of that wait is no longer
\* in pendingWaiters (it was overwritten, or cleared by disconnect()).
StaleTimerFires ==
  /\ timers # <<>> /\ timers' = Tail(timers)
  /\ ~Registered(Head(timers).w)

\* C33: the timeout of a waitForMessage call removes only that call's own
\* registration: when that registration is already gone, a waiter registered
\* later for the same type stays registered.
C33_TimeoutRemovesOwnEntry ==
  [][StaleTimerFires => pendingWaiters' = pendingWaiters]_vars

\* The readyState of the socket the store holds, NULL when it holds none.
CurrentReadyState == IF socket = NONE THEN NULL ELSE sockets[socket].readyState

\* C34: while the current socket is open the status is 'connected' and the
\* keepalive timer of the store runs; the status is 'connected', and a
\* keepalive timer runs, only while the current socket is open (or closing, its
\* close event not yet delivered).
C34_StatusFollowsSocket ==
  /\ CurrentReadyState = "OPEN" =>
       status = "connected" /\ pingInterval \in intervals
  /\ status = "connected" => CurrentReadyState \in {"OPEN", "CLOSING"}
  /\ intervals # {} => CurrentReadyState \in {"OPEN", "CLOSING"}

\* media:peer_left of user u has been handled and no media:new_producer of u
\* has been announced since.
Departed(u) ==
  /\ \E c \in DOMAIN calls : calls[c].user_id = u
  /\ \A c \in DOMAIN calls : calls[c].user_id = u => calls[c].left

\* C35: after media:peer_left of a user has been handled, remoteStreams holds
\* no entry of the user until a later media:new_producer of the user is
\* announced, also when a consume of one of the user's producers was queued or
\* in flight at that time.
C35_NoStreamAfterPeerLeft ==
  \A u \in Users : Departed(u) => ~MapHas(remoteStreams, u)

\* The consumers in the consumers map that are open and consume a producer of
\* user u.
OpenConsumersOf(u) ==
  {i \in DOMAIN consumers : /\ Owner(consumers[i][2].producerId) = u
                            /\ Handle("consumer", consumers[i][1]) \notin closed}

\* C36: after media:peer_left of a user has been handled, the consumers map
\* holds no open consumer of a producer of that user.
C36_NoConsumerAfterPeerLeft ==
  \A u \in Users : Departed(u) => OpenConsumersOf(u) = {}

\* The productions this session has created that are open: produce() returned
\* them, and neither they nor their transport have been closed.
OpenProductions ==
  {o \in DOMAIN ops : /\ ops[o].state = "done"
                      /\ Handle("producer", ops[o].id) \notin closed
                      /\ Handle("send", ops[o].transport) \notin closed}

\* C37: every open local production is the one recorded in producers under its
\* kind, and while isScreenSharing is false no screen production is open.
C37_NoOrphanProduction ==
  /\ \A o \in OpenProductions :
       MapHas(producers, ops[o].kind) /\ Production(ops[o].kind) = ops[o].id
  /\ ~isScreenSharing => \A o \in OpenProductions : ops[o].kind # "screen"

\* C38: after every poll, activeSpeakerKey is null or the key of a stream that
\* is in remoteStreams.
C38_SpeakerIsPresent ==
  [][audio'.now > audio.now =>
       \/ activeSpeaker'.activeSpeakerKey = NULL
       \/ MapHas(remoteStreams', activeSpeaker'.activeSpeakerKey)]_vars

\* C39: togglePin of a participant that is not pinned returns true and pins it
\* whenever fewer than 6 of the current participants are pinned.
C39_PinCapCountsParticipants ==
  \A streamKey \in streamKeys(Participants) :
    streamKey \notin Pinned /\ Len(pinnedParticipants(Cur)) < MAX_PINS =>
      LET s == togglePin(Cur, streamKey)
      IN /\ s.layoutCtrl.returned = [streamKey |-> streamKey, value |-> TRUE]
         /\ indexOf(s.layoutCtrl.prefs.pinnedStreamKeys, streamKey) >= 1

\* The local participant is in the list.
HasLocal(list) == Some(list, LAMBDA p : p.isLocal)

\* C40: when selfViewFloating is true the local participant is in neither the
\* primary nor the secondary region, in every effective mode; and primary and
\* secondary share no streamKey.
C40_FloatingSelfNotInRegions ==
  /\ Layout.selfViewFloating => ~HasLocal(Layout.primary) /\ ~HasLocal(Layout.secondary)
  /\ streamKeys(Layout.primary) \cap streamKeys(Layout.secondary) = {}

====
